---- MODULE Spec2Model ----
(***************************************************************************)
(* Ingest-ragflow: the parallel ingestion driver (rag/parsing.py,          *)
(* process_items_in_parallel / process_item) and the completion monitor    *)
(* (rag/parsing.py, monitor_parsing) as state machines.                    *)
(*                                                                         *)
(* The dataset of the indexing backend is the sequence docs, newest        *)
(* document first (the order list_documents answers in).  Document ids are *)
(* assigned by the backend: the k-th document ever created gets id k.      *)
(*                                                                         *)
(* monitor_parsing as it is in rag/parsing.py has no completion callback   *)
(* and no retry of a failed iteration; tests/rag/test_parsing.py calls it  *)
(* with on_document_done, retry_delay and max_retries.  The polling loop   *)
(* is modelled from rag/parsing.py; the notification of DONE documents     *)
(* (NotifyDone) and the bounded retry (RetryNext) are modelled from        *)
(* sections 4.5 and 7 of the specification and from those tests.           *)
(***************************************************************************)
EXTENDS Integers, Sequences, FiniteSets, TLC

\* ------------------------------------------------------------------ bounds
MaxDocs == 2       \* documents the dataset holds at most while it is monitored
MaxRetries == 2    \* max_retries handed to monitor_parsing
MaxItems == 2      \* item tasks one call of the ingestion driver dispatches at most
MaxBitstreams == 3 \* bitstreams an item has at most
MaxSize == 2       \* the largest sizeBytes of a bitstream
MaxUuid == 2       \* item uuids the source repository holds
MaxPage == 3       \* the largest limit_items_page, and the longest page the repository answers
MaxCap == 3        \* the largest limit_items
MaxAttempts == 4   \* the largest max_retries of get_items
MaxListDoc == 2    \* distinct documents list_documents may answer
MaxListLen == 2    \* the longest page list_documents answers
MaxPageSize == 2   \* the largest page_size of get_all_documents
MaxListCalls == 3  \* list_documents calls of one get_all_documents call

TaskIds == 1..MaxItems

\* Ids of the documents the dataset can hold during ingestion: one document
\* that was there before, and one per task.
IngestDocIds == 1..(MaxItems + 1)

\* Ids of the documents the monitor can meet: those of a dataset of MaxDocs
\* documents and those the ingestion before it created.
DocIds == 1..(IF MaxDocs > MaxItems + 1 THEN MaxDocs ELSE MaxItems + 1)

RunStates == {"UNSTART", "RUNNING", "DONE", "FAIL"}

Range(s) == {s[i] : i \in 1..Len(s)}

Min(a, b) == IF a < b THEN a ELSE b

VARIABLES
    docs,            \* the backend's dataset: records [id, run], newest first
    document_ids,    \* the tracking list shared by ingestion and monitoring
    progress_bars,   \* monitor_parsing: ids that have a progress entry
    mon_pc,          \* monitor_parsing: "start", "poll", "sleep", "retry_wait", "returned", "raised"
    notified,        \* monitor_parsing: ids whose completion was already notified
    retry_count,     \* monitor_parsing: failed attempts of the current iteration
    aborted,         \* monitor_parsing gave up after max_retries
    cb_calls,        \* per id, how often the completion callback was invoked (2 = more than once)
    cb_status,       \* the statuses the callback was invoked with
    cb_raised,       \* some invocation of the callback raised
    parse_submits,   \* per id, how often the monitor submitted it for parsing (2 = more than once)
    done_reports,    \* per tracked id, in how many listings of the loop it was reported DONE (2 = several)
    list_failed,     \* some listing call of the loop failed
    driver,          \* "items": process_items_in_parallel, "collections": process_collections_in_parallel
    drv_pc,          \* the driver: "idle", "enumerate", "waiting", "returned", "raised"
    max_concurrent_tasks,
    items_ids,       \* the item id of each dispatched task, in dispatch order
    semaphore,       \* free permits of threading.Semaphore(max_concurrent_tasks)
    lock,            \* the task that holds threading.Lock(), 0 when free
    task_pc,         \* per task, its position in process_single_item / process_item
    documents_id,    \* per task, process_item's local documents_id (0: not set)
    uploaded_doc,    \* per task, the id the backend gave to the document of its upload (0: none)
    metadata_map,    \* backend document id -> item id (0: no entry)
    items,           \* the driver's local `items`: "unset", "none" (get_items answered None), "list"
    parse_calls,     \* per task, the outcomes of its async_parse_documents calls, in order
    abandoned,       \* ids of the documents whose parse request ingestion gave up on
    retrieved,       \* per task, what retrieve_item_file answered to process_item
    rf_pc,           \* retrieve_item_file: "idle", "details", "bitstreams", "exists", "download",
                     \* "returned", "raised", "blocked"
    item_response,   \* how the item request is answered: "ok", "status_error", "exception",
                     \* "no_answer"
    metadata_response, \* how the metadata request is answered, likewise
    bitstreams,      \* what the item's bitstreams hold: "none", "no_pdf", "pdf_no_link", "pdf"
    download_response, \* how the download is answered: "ok", "status_error", "connect_error",
                     \* "stream_error", "no_answer"
    file_exists,     \* a file is at file_path
    item_details,    \* get_item_details' result: "unset", "none", "no_metadata", "full"
    rf_result,       \* retrieve_item_file's result: "unset", "none" for (None, None), "path"
    download_requests, \* how many download requests retrieve_item_file has issued
    sel_pc,          \* get_primary_pdf_bitstream: "idle", "call", "done"
    bitstream_list,  \* the bitstreams handed to get_primary_pdf_bitstream
    primary_bitstream, \* the position of the bitstream it returned, 0 for None
    gi_pc,           \* get_items: "idle", "loop", "request", "returned"
    limit_items_page,
    limit_items,     \* the cap, NoLimit for None
    max_retries,
    gi_items,        \* get_items' local `items`: the uuids of the records collected
    seen_uuids,
    offset,
    current_limit,
    attempt,         \* failed attempts of the current page request
    items_retrieved, \* the page of the last 200 answer: the uuid of each record, 0 for none
    gi_result,       \* "unset", "none" for None, "items"
    page_limits,     \* the limit of every page request, in order
    sleeps,          \* the seconds slept between the attempts of the current page request
    short_page,      \* some page held fewer records than were requested
    last_answer,     \* "unset", "exception", "status_error", "page"
    gad_pc,          \* get_all_documents: "idle", "call", "fetch", "returned"
    dataset,         \* its argument: "none" for None, "dataset"
    page_size,
    gad_page,        \* its local `page`: the number of the next page to ask for
    all_documents,
    fetched,         \* the answers of list_documents, in order: [page, raises, documents]
    pdf_name,        \* per item: the name of its primary PDF bitstream
    ret_pc,          \* per task, inside retrieve_item_file: "idle", "exists", "request", "write", "read", "done"
    local_files,     \* per file name in folder_path: "absent", "partial", "complete"
    writers,         \* per file name: the tasks that hold the file open for writing
    blob             \* per task: what read_binary_file read: "unset", "partial", "complete"

monVars == <<progress_bars, mon_pc, notified, retry_count, aborted, cb_calls,
             cb_status, cb_raised, parse_submits, done_reports, list_failed>>

ingVars == <<driver, drv_pc, max_concurrent_tasks, items_ids, semaphore, lock,
             task_pc, documents_id, uploaded_doc, metadata_map, items,
             parse_calls, abandoned, retrieved>>

\* What only the driver's enumeration and the parse request write.
auxVars == <<items, parse_calls, abandoned, retrieved>>

retVars == <<rf_pc, item_response, metadata_response, bitstreams, download_response,
             file_exists, item_details, rf_result, download_requests>>

\* The state of the calls to the source repository.
selVars == <<sel_pc, bitstream_list, primary_bitstream>>

getVars == <<gi_pc, limit_items_page, limit_items, max_retries, gi_items, seen_uuids,
             offset, current_limit, attempt, items_retrieved, gi_result, page_limits,
             sleeps, short_page, last_answer>>

\* The state of a get_all_documents call.
listVars == <<gad_pc, dataset, page_size, gad_page, all_documents, fetched>>

\* The files of folder_path and each task's passage through
\* retrieve_item_file and generate_document_list.
fileVars == <<pdf_name, ret_pc, local_files, writers, blob>>

extVars == <<listVars, fileVars>>

dspaceVars == <<retVars, selVars, getVars, extVars>>

vars == <<docs, document_ids, monVars, ingVars, dspaceVars>>

\* ------------------------------------------------------------ the backend
\* Dataset contents: ids n, n-1, .., 1 from the newest document to the oldest.
RECURSIVE DocLists(_)
DocLists(n) ==
    IF n = 0 THEN {<<>>}
    ELSE {<<[id |-> n, run |-> r]>> \o rest : r \in RunStates, rest \in DocLists(n - 1)}

ListedIds(listing) == {listing[i].id : i \in 1..Len(listing)}

\* Sequences over the set S without repetition, in increasing order of id.
RECURSIVE SeqOfSet(_)
SeqOfSet(S) ==
    IF S = {} THEN <<>>
    ELSE LET m == CHOOSE x \in S : \A y \in S : x <= y
         IN <<m>> \o SeqOfSet(S \ {m})

\* A document created by a client of the backend (upload_documents): newest
\* first, not started.
UploadDocument(listing) ==
    <<[id |-> Len(listing) + 1, run |-> "UNSTART"]>> \o listing

\* Another client uploads a document while the monitor runs.
BackendUpload ==
    /\ mon_pc \in {"poll", "sleep", "retry_wait"}
    /\ Len(docs) < MaxDocs
    /\ docs' = UploadDocument(docs)
    /\ UNCHANGED <<document_ids, monVars, ingVars>>
    /\ UNCHANGED dspaceVars

\* The backend starts parsing a document.
BackendStart ==
    /\ mon_pc \in {"poll", "sleep", "retry_wait"}
    /\ \E i \in 1..Len(docs) :
        /\ docs[i].run = "UNSTART"
        /\ docs' = [docs EXCEPT ![i].run = "RUNNING"]
    /\ UNCHANGED <<document_ids, monVars, ingVars>>
    /\ UNCHANGED dspaceVars

\* The backend finishes parsing a document: done, or failed/cancelled.
BackendFinish ==
    /\ mon_pc \in {"poll", "sleep", "retry_wait"}
    /\ \E i \in 1..Len(docs), r \in {"DONE", "FAIL"} :
        /\ docs[i].run = "RUNNING"
        /\ docs' = [docs EXCEPT ![i].run = r]
    /\ UNCHANGED <<document_ids, monVars, ingVars>>
    /\ UNCHANGED dspaceVars

\* --------------------------------------------------------- monitor_parsing
\* get_documents_map and the progress bars built from it: one entry per
\* tracked id that the start-up listing contains.
get_documents_map(listing, ids) == ListedIds(listing) \cap Range(ids)

MonitorStart ==
    /\ mon_pc = "start"
    /\ progress_bars' = get_documents_map(docs, document_ids)
    /\ mon_pc' = "poll"
    /\ UNCHANGED <<docs, document_ids, notified, retry_count, aborted, cb_calls,
                   cb_status, cb_raised, parse_submits, done_reports, list_failed>>
    /\ UNCHANGED ingVars
    /\ UNCHANGED dspaceVars

\* NotifyDone without the check of the notified set.
NotifyDone_NoNotifiedCheck(st, doc, raisesFor) ==
    IF doc.run = "DONE"
    THEN [st EXCEPT !.notified = @ \cup {doc.id},
                    !.cb_calls[doc.id] = Min(@ + 1, 2),
                    !.cb_status = @ \cup {doc.run},
                    !.outcome = IF doc.id \in raisesFor THEN "callback_raised" ELSE "ok"]
    ELSE st

\* NotifyDone firing for every terminal status, failed/cancelled included.
NotifyDone_AnyTerminal(st, doc, raisesFor) ==
    IF doc.run \in {"DONE", "FAIL"} /\ doc.id \notin st.notified
    THEN [st EXCEPT !.notified = @ \cup {doc.id},
                    !.cb_calls[doc.id] = Min(@ + 1, 2),
                    !.cb_status = @ \cup {doc.run},
                    !.outcome = IF doc.id \in raisesFor THEN "callback_raised" ELSE "ok"]
    ELSE st

\* A tracked document reported DONE and not yet notified: mark it notified,
\* then invoke the callback with the document's status; the callback raises
\* for the ids in raisesFor.
NotifyDone(st, doc, raisesFor) ==
    IF doc.run = "DONE" /\ doc.id \notin st.notified
    THEN [st EXCEPT !.notified = @ \cup {doc.id},
                    !.cb_calls[doc.id] = Min(@ + 1, 2),
                    !.cb_status = @ \cup {doc.run},
                    !.outcome = IF doc.id \in raisesFor THEN "callback_raised" ELSE "ok"]
    ELSE st

\* ScanDoc whose re-adoption branch forgets `all_done = False`.
ScanDoc_OrphanKeepsDone(st, doc, raisesFor) ==
    IF doc.id \in Range(st.document_ids)
    THEN IF doc.id \notin st.progress_bars
         THEN [st EXCEPT !.outcome = "KeyError"]
         ELSE LET st1 == NotifyDone(st, doc, raisesFor)
              IN IF st1.outcome = "ok" /\ doc.run = "RUNNING"
                 THEN [st1 EXCEPT !.all_done = FALSE]
                 ELSE st1
    ELSE IF doc.run = "UNSTART"
         THEN [st EXCEPT !.parse_submits[doc.id] = Min(@ + 1, 2),
                         !.document_ids = Append(@, doc.id),
                         !.progress_bars = @ \cup {doc.id}]
         ELSE st

\* ScanDoc that re-adopts every UNSTART document, tracked or not.
ScanDoc_AdoptTracked(st, doc, raisesFor) ==
    IF doc.run = "UNSTART"
    THEN [st EXCEPT !.parse_submits[doc.id] = Min(@ + 1, 2),
                    !.document_ids = Append(@, doc.id),
                    !.progress_bars = @ \cup {doc.id},
                    !.all_done = FALSE]
    ELSE IF doc.id \in Range(st.document_ids) /\ doc.id \in st.progress_bars
         THEN NotifyDone(st, doc, raisesFor)
         ELSE st

\* ScanDoc that re-adopts an untracked document in whatever status.
ScanDoc_AdoptAnyOrphan(st, doc, raisesFor) ==
    IF doc.id \in Range(st.document_ids)
    THEN IF doc.id \notin st.progress_bars
         THEN [st EXCEPT !.outcome = "KeyError"]
         ELSE LET st1 == NotifyDone(st, doc, raisesFor)
              IN IF st1.outcome = "ok" /\ doc.run = "RUNNING"
                 THEN [st1 EXCEPT !.all_done = FALSE]
                 ELSE st1
    ELSE [st EXCEPT !.parse_submits[doc.id] = Min(@ + 1, 2),
                    !.document_ids = Append(@, doc.id),
                    !.progress_bars = @ \cup {doc.id},
                    !.all_done = FALSE]

\* ScanDoc that re-adopts without adding the id to the tracking list.
ScanDoc_AdoptUntracked(st, doc, raisesFor) ==
    IF doc.id \in Range(st.document_ids)
    THEN IF doc.id \notin st.progress_bars
         THEN [st EXCEPT !.outcome = "KeyError"]
         ELSE LET st1 == NotifyDone(st, doc, raisesFor)
              IN IF st1.outcome = "ok" /\ doc.run = "RUNNING"
                 THEN [st1 EXCEPT !.all_done = FALSE]
                 ELSE st1
    ELSE IF doc.run = "UNSTART"
         THEN [st EXCEPT !.parse_submits[doc.id] = Min(@ + 1, 2),
                         !.progress_bars = @ \cup {doc.id},
                         !.all_done = FALSE]
         ELSE st

\* The body of `for doc in documents` for one document.
ScanDoc(st, doc, raisesFor) ==
    IF doc.id \in Range(st.document_ids)
    THEN IF doc.id \notin st.progress_bars
         THEN [st EXCEPT !.outcome = "KeyError"]
         ELSE LET st1 == NotifyDone(st, doc, raisesFor)
              IN IF st1.outcome = "ok" /\ doc.run = "RUNNING"
                 THEN [st1 EXCEPT !.all_done = FALSE]
                 ELSE st1
    ELSE IF doc.run = "UNSTART"
         THEN [st EXCEPT !.parse_submits[doc.id] = Min(@ + 1, 2),
                         !.document_ids = Append(@, doc.id),
                         !.progress_bars = @ \cup {doc.id},
                         !.all_done = FALSE]
         ELSE st

\* The for loop over one listing; an exception ends it.
RECURSIVE ScanDocs(_, _, _)
ScanDocs(st, listing, raisesFor) ==
    IF listing = <<>> \/ st.outcome # "ok" THEN st
    ELSE ScanDocs(ScanDoc(st, Head(listing), raisesFor), Tail(listing), raisesFor)

\* RetryNext that allows one retry too many.
RetryNext_OffByOne(count) ==
    IF count + 1 > MaxRetries + 1
    THEN [pc |-> "returned", retry_count |-> count + 1, aborted |-> TRUE]
    ELSE [pc |-> "retry_wait", retry_count |-> count + 1, aborted |-> FALSE]

\* RetryNext that gives up at the first failure.
RetryNext_NoRetry(count) ==
    [pc |-> "returned", retry_count |-> count + 1, aborted |-> TRUE]

\* A failed iteration: retried after retry_delay, at most max_retries times.
RetryNext(count) ==
    IF count + 1 > MaxRetries
    THEN [pc |-> "returned", retry_count |-> count + 1, aborted |-> TRUE]
    ELSE [pc |-> "retry_wait", retry_count |-> count + 1, aborted |-> FALSE]

\* CatchFailure that handles the failed listing call only.
CatchFailure_ListOnly(outcome, count) ==
    IF outcome = "list_error"
    THEN RetryNext(count)
    ELSE [pc |-> "raised", retry_count |-> count, aborted |-> FALSE]

\* What an exception raised inside an iteration leads to: a failed listing
\* call and a raising callback are retryable failures of the iteration; a
\* missing progress entry (KeyError) has no handler.
CatchFailure(outcome, count) ==
    IF outcome \in {"list_error", "callback_raised"}
    THEN RetryNext(count)
    ELSE [pc |-> "raised", retry_count |-> count, aborted |-> FALSE]

\* LoopExit that goes to the next listing without sleeping.
LoopExit_BusyWait(all_done) ==
    [pc |-> IF all_done THEN "returned" ELSE "poll", retry_count |-> 0, aborted |-> FALSE]

\* The end of an iteration that raised nothing: `if not all_done: sleep`,
\* then the loop condition.
LoopExit(all_done) ==
    [pc |-> IF all_done THEN "returned" ELSE "sleep", retry_count |-> 0, aborted |-> FALSE]

\* The tracked ids a listing reports DONE.
ReportedDone(listing, ids) ==
    {listing[i].id : i \in {j \in 1..Len(listing) :
        listing[j].run = "DONE" /\ listing[j].id \in Range(ids)}}

\* One iteration of `while not all_done`: the listing call, the for loop and
\* the decision to sleep or to leave the loop.
MonitorPoll ==
    /\ mon_pc = "poll"
    /\ \E listOk \in BOOLEAN, raisesFor \in SUBSET ListedIds(docs) :
        LET st0 == [document_ids |-> document_ids, progress_bars |-> progress_bars,
                    notified |-> notified, cb_calls |-> cb_calls,
                    cb_status |-> cb_status, parse_submits |-> parse_submits,
                    all_done |-> TRUE, outcome |-> "ok"]
            st == IF listOk THEN ScanDocs(st0, docs, raisesFor)
                  ELSE [st0 EXCEPT !.outcome = "list_error"]
            nxt == IF st.outcome = "ok" THEN LoopExit(st.all_done)
                   ELSE CatchFailure(st.outcome, retry_count)
        IN /\ (st.outcome # "callback_raised") => (raisesFor = {})
           /\ document_ids' = st.document_ids
           /\ progress_bars' = st.progress_bars
           /\ notified' = st.notified
           /\ cb_calls' = st.cb_calls
           /\ cb_status' = st.cb_status
           /\ parse_submits' = st.parse_submits
           /\ done_reports' = IF listOk
                               THEN [d \in DocIds |->
                                       IF d \in ReportedDone(docs, document_ids)
                                       THEN Min(done_reports[d] + 1, 2)
                                       ELSE done_reports[d]]
                               ELSE done_reports
           /\ list_failed' = (list_failed \/ ~listOk)
           /\ cb_raised' = (cb_raised \/ st.outcome = "callback_raised")
           /\ mon_pc' = nxt.pc
           /\ retry_count' = nxt.retry_count
           /\ aborted' = (aborted \/ nxt.aborted)
    /\ UNCHANGED <<docs, ingVars>>
    /\ UNCHANGED dspaceVars

\* asyncio.sleep(poll_interval), or the retry delay, is over.
MonitorWake ==
    /\ mon_pc \in {"sleep", "retry_wait"}
    /\ mon_pc' = "poll"
    /\ UNCHANGED <<docs, document_ids, progress_bars, notified, retry_count, aborted,
                   cb_calls, cb_status, cb_raised, parse_submits, done_reports, list_failed>>
    /\ UNCHANGED ingVars
    /\ UNCHANGED dspaceVars

\* The monitor before it is called.
MonitorFresh ==
    /\ progress_bars = {}
    /\ notified = {}
    /\ retry_count = 0
    /\ aborted = FALSE
    /\ cb_calls = [d \in DocIds |-> 0]
    /\ cb_status = {}
    /\ cb_raised = FALSE
    /\ parse_submits = [d \in DocIds |-> 0]
    /\ done_reports = [d \in DocIds |-> 0]
    /\ list_failed = FALSE

\* No ingestion driver is running.
IngestIdle ==
    /\ driver = "items"
    /\ drv_pc = "idle"
    /\ max_concurrent_tasks = 1
    /\ items_ids = <<>>
    /\ semaphore = 1
    /\ lock = 0
    /\ task_pc = [t \in TaskIds |-> "idle"]
    /\ documents_id = [t \in TaskIds |-> 0]
    /\ uploaded_doc = [t \in TaskIds |-> 0]
    /\ metadata_map = [d \in IngestDocIds |-> 0]
    /\ items = "unset"
    /\ parse_calls = [t \in TaskIds |-> <<>>]
    /\ abandoned = {}
    /\ retrieved = [t \in TaskIds |-> "unset"]

\* No retrieve_item_file call is under way.
RetrieveIdle ==
    /\ rf_pc = "idle"
    /\ item_response = "ok"
    /\ metadata_response = "ok"
    /\ bitstreams = "pdf"
    /\ download_response = "ok"
    /\ file_exists = FALSE
    /\ item_details = "unset"
    /\ rf_result = "unset"
    /\ download_requests = 0

\* No get_primary_pdf_bitstream call is under way.
SelectIdle ==
    /\ sel_pc = "idle"
    /\ bitstream_list = <<>>
    /\ primary_bitstream = 0

\* limit_items = None.
NoLimit == -1

\* No get_items call is under way.
GetItemsIdle ==
    /\ gi_pc = "idle"
    /\ limit_items_page = 1
    /\ limit_items = NoLimit
    /\ max_retries = 1
    /\ gi_items = <<>>
    /\ seen_uuids = {}
    /\ offset = 0
    /\ current_limit = 0
    /\ attempt = 0
    /\ items_retrieved = <<>>
    /\ gi_result = "unset"
    /\ page_limits = <<>>
    /\ sleeps = <<>>
    /\ short_page = FALSE
    /\ last_answer = "unset"

\* No get_all_documents call is under way.
ListingIdle ==
    /\ gad_pc = "idle"
    /\ dataset = "dataset"
    /\ page_size = 1
    /\ gad_page = 1
    /\ all_documents = <<>>
    /\ fetched = <<>>

\* No task is inside retrieve_item_file and folder_path is empty.
FilesIdle ==
    /\ pdf_name = [i \in TaskIds |-> i]
    /\ ret_pc = [t \in TaskIds |-> "idle"]
    /\ local_files = [f \in TaskIds |-> "absent"]
    /\ writers = [f \in TaskIds |-> {}]
    /\ blob = [t \in TaskIds |-> "unset"]

ExtIdle == ListingIdle /\ FilesIdle

\* monitor_parsing is called after ingestion: every tracked id is the id of
\* a document of the dataset.
InitMonitor ==
    /\ \E n \in 0..MaxDocs : docs \in DocLists(n)
    /\ \E S \in SUBSET ListedIds(docs) : document_ids = SeqOfSet(S)
    /\ mon_pc = "start"
    /\ MonitorFresh
    /\ ExtIdle
    /\ IngestIdle
    /\ RetrieveIdle
    /\ SelectIdle
    /\ GetItemsIdle

NextMonitor ==
    \/ MonitorStart
    \/ MonitorPoll
    \/ MonitorWake
    \/ BackendUpload
    \/ BackendStart
    \/ BackendFinish

SpecMonitor == InitMonitor /\ [][NextMonitor]_vars

\* monitor_parsing is called with a tracking list that may hold the id of a
\* document the start-up listing does not hold: the backend lists it later.
InitMonitorLate ==
    /\ \E n \in 0..MaxDocs : docs \in DocLists(n)
    /\ \E S \in SUBSET (1..MaxDocs) : document_ids = SeqOfSet(S)
    /\ mon_pc = "start"
    /\ MonitorFresh
    /\ ExtIdle
    /\ IngestIdle
    /\ RetrieveIdle
    /\ SelectIdle
    /\ GetItemsIdle

SpecMonitorLate == InitMonitorLate /\ [][NextMonitor]_vars

\* The event loop runs the coroutine on and ends its sleeps, and the backend
\* finishes what it parses; nothing obliges it to start a document or a
\* client to upload one.
MonitorFairness ==
    /\ WF_vars(MonitorStart)
    /\ WF_vars(MonitorPoll)
    /\ WF_vars(MonitorWake)
    /\ WF_vars(BackendFinish)

SpecMonitorFair == InitMonitor /\ [][NextMonitor]_vars /\ MonitorFairness

SpecMonitorLateFair == InitMonitorLate /\ [][NextMonitor]_vars /\ MonitorFairness

\* ------------------------------------------------ the ingestion driver
\* The tasks the driver dispatched.
Dispatched == 1..Len(items_ids)

\* The uuid lists of n records a repository can answer: an item may be
\* listed more than once (a repeated record, an item mapped into two
\* collections).
RECURSIVE UuidLists(_)
UuidLists(n) ==
    IF n = 0 THEN {<<>>}
    ELSE {Append(l, i) : l \in UuidLists(n - 1), i \in 1..n}

\* get_items_ids: the uuids in first-seen order, each once.
RECURSIVE get_items_ids(_)
get_items_ids(its) ==
    IF its = <<>> THEN <<>>
    ELSE LET front == get_items_ids(SubSeq(its, 1, Len(its) - 1))
             uuid  == its[Len(its)]
         IN  IF \E k \in 1..Len(front) : front[k] = uuid
             THEN front
             ELSE Append(front, uuid)

\* The item ids a driver dispatches from n listed records:
\* process_items_in_parallel passes them through get_items_ids,
\* process_collections_in_parallel extends its list with every collection's
\* ids as they come.
ItemLists(kind, n) ==
    IF kind = "items" THEN {get_items_ids(l) : l \in UuidLists(n)}
    ELSE UuidLists(n)

\* The positions of a task inside process_item.
InProcessItem == {"retrieve", "lock_upload", "upload", "list", "append", "parse",
                  "parse_retry", "lock_log", "log"}

\* get_items / get_items_from_collection, then executor.submit for every id.
\* get_items answering None leaves items_ids unbound in
\* process_items_in_parallel, which raises; a collection answering None is
\* skipped by process_collections_in_parallel.
DriverDispatch ==
    /\ drv_pc = "enumerate"
    /\ \E failed \in BOOLEAN, n \in 0..MaxItems :
        IF failed /\ driver = "items"
        THEN /\ n = 0
             /\ items' = "none"
             /\ drv_pc' = "raised"
             /\ UNCHANGED <<items_ids, task_pc>>
        ELSE /\ ~failed
             /\ items' = "list"
             /\ \E l \in ItemLists(driver, n) :
                 /\ items_ids' = l
                 /\ task_pc' = [t \in TaskIds |-> IF t <= Len(l) THEN "queued" ELSE "idle"]
             /\ drv_pc' = "waiting"
    /\ UNCHANGED <<docs, document_ids, monVars, driver, max_concurrent_tasks,
                   semaphore, lock, documents_id, uploaded_doc, metadata_map,
                   parse_calls, abandoned, retrieved>>
    /\ UNCHANGED dspaceVars

\* AcquireSemaphore that does not wait for a free permit.
AcquireSemaphore_NoWait(t) ==
    /\ task_pc[t] = "queued"
    /\ semaphore' = semaphore - 1
    /\ task_pc' = [task_pc EXCEPT ![t] = "retrieve"]
    /\ UNCHANGED <<docs, document_ids, monVars, auxVars, driver, drv_pc, max_concurrent_tasks,
                   items_ids, lock, documents_id, uploaded_doc, metadata_map>>
    /\ UNCHANGED dspaceVars

\* `with semaphore:` in process_single_item.
AcquireSemaphore(t) ==
    /\ task_pc[t] = "queued"
    /\ semaphore > 0
    /\ semaphore' = semaphore - 1
    /\ task_pc' = [task_pc EXCEPT ![t] = "retrieve"]
    /\ UNCHANGED <<docs, document_ids, monVars, auxVars, driver, drv_pc, max_concurrent_tasks,
                   items_ids, lock, documents_id, uploaded_doc, metadata_map>>
    /\ UNCHANGED dspaceVars

\* What retrieve_item_file answers: (None, None) ("none"), or item details
\* with the path folder/<name of the chosen bitstream>, a name that
\* get_primary_pdf_bitstream accepted in any case of letters: the file is
\* there with a name in ".pdf" ("pdf") or in ".PDF" ("PDF"), or no file is
\* at the path ("missing").
RetrieveResults == {"none", "pdf", "PDF", "missing"}

\* `if file_path and file_path.endswith(".pdf") and item_metadata`.
IsUploadable(res) == res \in {"pdf", "missing"}

\* retrieve_item_file, the test of its result and generate_document_list:
\* a result that passes the test goes to the upload, or raises when reading
\* the file fails; any other result makes process_item return (None, None).
RetrieveItem(t) ==
    /\ task_pc[t] = "retrieve"
    /\ \E res \in RetrieveResults :
        /\ retrieved' = [retrieved EXCEPT ![t] = res]
        /\ task_pc' = [task_pc EXCEPT ![t] =
                      CASE ~IsUploadable(res) -> "release"
                        [] res = "missing" -> "release_exc"
                        [] OTHER -> "lock_upload"]
    /\ UNCHANGED <<docs, document_ids, monVars, items, parse_calls, abandoned, driver,
                   drv_pc, max_concurrent_tasks, items_ids, semaphore, lock, documents_id,
                   uploaded_doc, metadata_map>>
    /\ UNCHANGED dspaceVars

\* AcquireLockUpload that enters the block without waiting for the lock.
AcquireLockUpload_NoWait(t) ==
    /\ task_pc[t] = "lock_upload"
    /\ lock' = t
    /\ task_pc' = [task_pc EXCEPT ![t] = "upload"]
    /\ UNCHANGED <<docs, document_ids, monVars, auxVars, driver, drv_pc, max_concurrent_tasks,
                   items_ids, semaphore, documents_id, uploaded_doc, metadata_map>>
    /\ UNCHANGED dspaceVars

\* `with lock:` before the upload.
AcquireLockUpload(t) ==
    /\ task_pc[t] = "lock_upload"
    /\ lock = 0
    /\ lock' = t
    /\ task_pc' = [task_pc EXCEPT ![t] = "upload"]
    /\ UNCHANGED <<docs, document_ids, monVars, auxVars, driver, drv_pc, max_concurrent_tasks,
                   items_ids, semaphore, documents_id, uploaded_doc, metadata_map>>
    /\ UNCHANGED dspaceVars

\* UploadDocuments that keeps the lock when the upload raises.
UploadDocuments_LockKeptOnError(t) ==
    /\ task_pc[t] = "upload"
    /\ \E ok \in BOOLEAN :
        IF ok
        THEN /\ docs' = UploadDocument(docs)
             /\ uploaded_doc' = [uploaded_doc EXCEPT ![t] = Len(docs) + 1]
             /\ task_pc' = [task_pc EXCEPT ![t] = "list"]
        ELSE /\ task_pc' = [task_pc EXCEPT ![t] = "release_exc"]
             /\ UNCHANGED <<docs, uploaded_doc>>
    /\ UNCHANGED <<document_ids, monVars, auxVars, driver, drv_pc, max_concurrent_tasks,
                   items_ids, semaphore, lock, documents_id, metadata_map>>
    /\ UNCHANGED dspaceVars

\* ragflow_dataset.upload_documents(document); when it raises, the lock is
\* released and the exception leaves process_item.
UploadDocuments(t) ==
    /\ task_pc[t] = "upload"
    /\ \E ok \in BOOLEAN :
        IF ok
        THEN /\ docs' = UploadDocument(docs)
             /\ uploaded_doc' = [uploaded_doc EXCEPT ![t] = Len(docs) + 1]
             /\ task_pc' = [task_pc EXCEPT ![t] = "list"]
             /\ UNCHANGED lock
        ELSE /\ lock' = 0
             /\ task_pc' = [task_pc EXCEPT ![t] = "release_exc"]
             /\ UNCHANGED <<docs, uploaded_doc>>
    /\ UNCHANGED <<document_ids, monVars, auxVars, driver, drv_pc, max_concurrent_tasks,
                   items_ids, semaphore, documents_id, metadata_map>>
    /\ UNCHANGED dspaceVars

\* ListFirstDocument that takes the last document of the listing.
ListFirstDocument_Oldest(t) ==
    /\ task_pc[t] = "list"
    /\ documents_id' = [documents_id EXCEPT ![t] = docs[Len(docs)].id]
    /\ task_pc' = [task_pc EXCEPT ![t] = "append"]
    /\ UNCHANGED <<docs, document_ids, monVars, auxVars, driver, drv_pc, max_concurrent_tasks,
                   items_ids, semaphore, lock, uploaded_doc, metadata_map>>
    /\ UNCHANGED dspaceVars

\* documents_id = ragflow_dataset.list_documents()[0].id
ListFirstDocument(t) ==
    /\ task_pc[t] = "list"
    /\ documents_id' = [documents_id EXCEPT ![t] = docs[1].id]
    /\ task_pc' = [task_pc EXCEPT ![t] = "append"]
    /\ UNCHANGED <<docs, document_ids, monVars, auxVars, driver, drv_pc, max_concurrent_tasks,
                   items_ids, semaphore, lock, uploaded_doc, metadata_map>>
    /\ UNCHANGED dspaceVars

\* documents_ids.append(documents_id), and the end of the `with lock:` block.
AppendDocumentId(t) ==
    /\ task_pc[t] = "append"
    /\ document_ids' = Append(document_ids, documents_id[t])
    /\ lock' = 0
    /\ task_pc' = [task_pc EXCEPT ![t] = "parse"]
    /\ UNCHANGED <<docs, monVars, auxVars, driver, drv_pc, max_concurrent_tasks,
                   items_ids, semaphore, documents_id, uploaded_doc, metadata_map>>
    /\ UNCHANGED dspaceVars

\* The backend accepts a parse request for document d.
StartParsing(listing, d) ==
    [i \in 1..Len(listing) |->
        IF listing[i].id = d /\ listing[i].run = "UNSTART"
        THEN [listing[i] EXCEPT !.run = "RUNNING"]
        ELSE listing[i]]

\* SubmitParse that logs a ConnectionError like any other exception, without
\* a second attempt.
SubmitParse_NoRetry(t) ==
    /\ task_pc[t] = "parse"
    /\ \E res \in {"ok", "connection_error", "other_error"} :
        /\ docs' = IF res = "ok" THEN StartParsing(docs, documents_id[t]) ELSE docs
        /\ task_pc' = [task_pc EXCEPT ![t] = "lock_log"]
        /\ parse_calls' = [parse_calls EXCEPT ![t] = Append(@, res)]
        /\ abandoned' = IF res = "ok" THEN abandoned ELSE abandoned \cup {documents_id[t]}
    /\ UNCHANGED <<document_ids, monVars, driver, drv_pc, max_concurrent_tasks,
                   items_ids, semaphore, lock, documents_id, uploaded_doc, metadata_map,
                   items, retrieved>>
    /\ UNCHANGED dspaceVars

\* ragflow_dataset.async_parse_documents([documents_id]) inside the try: it
\* succeeds, raises ConnectionError (retried after 5 seconds) or raises
\* another exception (logged).
SubmitParse(t) ==
    /\ task_pc[t] = "parse"
    /\ \E res \in {"ok", "connection_error", "other_error"} :
        /\ docs' = IF res = "ok" THEN StartParsing(docs, documents_id[t]) ELSE docs
        /\ task_pc' = [task_pc EXCEPT ![t] =
                          IF res = "connection_error" THEN "parse_retry" ELSE "lock_log"]
        /\ parse_calls' = [parse_calls EXCEPT ![t] = Append(@, res)]
        /\ abandoned' = IF res = "other_error" THEN abandoned \cup {documents_id[t]}
                        ELSE abandoned
    /\ UNCHANGED <<document_ids, monVars, driver, drv_pc, max_concurrent_tasks,
                   items_ids, semaphore, lock, documents_id, uploaded_doc, metadata_map,
                   items, retrieved>>
    /\ UNCHANGED dspaceVars

\* The retry inside `except ConnectionError`: an exception it raises has no
\* handler and leaves process_item.
RetryParse(t) ==
    /\ task_pc[t] = "parse_retry"
    /\ \E ok \in BOOLEAN :
        /\ docs' = IF ok THEN StartParsing(docs, documents_id[t]) ELSE docs
        /\ task_pc' = [task_pc EXCEPT ![t] = IF ok THEN "lock_log" ELSE "release_exc"]
        /\ parse_calls' = [parse_calls EXCEPT ![t] = Append(@, IF ok THEN "ok" ELSE "error")]
        /\ abandoned' = IF ok THEN abandoned ELSE abandoned \cup {documents_id[t]}
    /\ UNCHANGED <<document_ids, monVars, driver, drv_pc, max_concurrent_tasks,
                   items_ids, semaphore, lock, documents_id, uploaded_doc, metadata_map,
                   items, retrieved>>
    /\ UNCHANGED dspaceVars

\* `with lock:` around the "processed successfully" message.
AcquireLockLog(t) ==
    /\ task_pc[t] = "lock_log"
    /\ lock = 0
    /\ lock' = t
    /\ task_pc' = [task_pc EXCEPT ![t] = "log"]
    /\ UNCHANGED <<docs, document_ids, monVars, auxVars, driver, drv_pc, max_concurrent_tasks,
                   items_ids, semaphore, documents_id, uploaded_doc, metadata_map>>
    /\ UNCHANGED dspaceVars

\* LogProcessed that answers (None, None) for an item whose parse request
\* failed, so that process_single_item writes no map entry for it.
LogProcessed_ParsedOnly(t) ==
    /\ task_pc[t] = "log"
    /\ lock' = 0
    /\ task_pc' = [task_pc EXCEPT ![t] =
                      IF parse_calls[t][Len(parse_calls[t])] = "ok"
                      THEN "lock_meta" ELSE "release"]
    /\ UNCHANGED <<docs, document_ids, monVars, auxVars, driver, drv_pc, max_concurrent_tasks,
                   items_ids, semaphore, documents_id, uploaded_doc, metadata_map>>
    /\ UNCHANGED dspaceVars

\* The message is written, the lock released, and process_item returns
\* (documents_id, item_metadata).
LogProcessed(t) ==
    /\ task_pc[t] = "log"
    /\ lock' = 0
    /\ task_pc' = [task_pc EXCEPT ![t] = "lock_meta"]
    /\ UNCHANGED <<docs, document_ids, monVars, auxVars, driver, drv_pc, max_concurrent_tasks,
                   items_ids, semaphore, documents_id, uploaded_doc, metadata_map>>
    /\ UNCHANGED dspaceVars

\* `if ragflow_id and metadata: with lock:` in process_single_item.
AcquireLockMeta(t) ==
    /\ task_pc[t] = "lock_meta"
    /\ lock = 0
    /\ lock' = t
    /\ task_pc' = [task_pc EXCEPT ![t] = "meta"]
    /\ UNCHANGED <<docs, document_ids, monVars, auxVars, driver, drv_pc, max_concurrent_tasks,
                   items_ids, semaphore, documents_id, uploaded_doc, metadata_map>>
    /\ UNCHANGED dspaceVars

\* metadata_map[ragflow_id] = metadata, and the end of the `with lock:` block.
WriteMetadata(t) ==
    /\ task_pc[t] = "meta"
    /\ metadata_map' = [metadata_map EXCEPT ![documents_id[t]] = items_ids[t]]
    /\ lock' = 0
    /\ task_pc' = [task_pc EXCEPT ![t] = "release"]
    /\ UNCHANGED <<docs, document_ids, monVars, auxVars, driver, drv_pc, max_concurrent_tasks,
                   items_ids, semaphore, documents_id, uploaded_doc>>
    /\ UNCHANGED dspaceVars

\* The end of `with semaphore:`, on return and on an exception alike.
ReleaseSemaphore(t) ==
    /\ task_pc[t] \in {"release", "release_exc"}
    /\ semaphore' = semaphore + 1
    /\ task_pc' = [task_pc EXCEPT ![t] = IF task_pc[t] = "release" THEN "finished" ELSE "failed"]
    /\ UNCHANGED <<docs, document_ids, monVars, auxVars, driver, drv_pc, max_concurrent_tasks,
                   items_ids, lock, documents_id, uploaded_doc, metadata_map>>
    /\ UNCHANGED dspaceVars

\* DriverReturn that waits for the first dispatched task only.
DriverReturn_FirstTaskOnly ==
    /\ drv_pc = "waiting"
    /\ \A t \in Dispatched : t = 1 => task_pc[t] \in {"finished", "failed"}
    /\ drv_pc' = IF \E t \in Dispatched : task_pc[t] = "failed" THEN "raised" ELSE "returned"
    /\ UNCHANGED <<docs, document_ids, monVars, auxVars, driver, max_concurrent_tasks, items_ids,
                   semaphore, lock, task_pc, documents_id, uploaded_doc, metadata_map>>
    /\ UNCHANGED dspaceVars

\* `for future in futures: future.result()` and the end of the executor
\* block: the driver goes on when every task is over, and an exception of a
\* task is raised again by future.result().
DriverReturn ==
    /\ drv_pc = "waiting"
    /\ \A t \in Dispatched : task_pc[t] \in {"finished", "failed"}
    /\ drv_pc' = IF \E t \in Dispatched : task_pc[t] = "failed" THEN "raised" ELSE "returned"
    /\ UNCHANGED <<docs, document_ids, monVars, auxVars, driver, max_concurrent_tasks, items_ids,
                   semaphore, lock, task_pc, documents_id, uploaded_doc, metadata_map>>
    /\ UNCHANGED dspaceVars

\* The driver is called with an empty tracking list on a dataset that holds
\* nothing or one document parsed earlier.
InitIngest ==
    /\ docs \in {<<>>, <<[id |-> 1, run |-> "DONE"]>>}
    /\ document_ids = <<>>
    /\ mon_pc = "idle"
    /\ MonitorFresh
    /\ ExtIdle
    /\ driver \in {"items", "collections"}
    /\ drv_pc = "enumerate"
    /\ max_concurrent_tasks \in 1..MaxItems
    /\ items_ids = <<>>
    /\ semaphore = max_concurrent_tasks
    /\ lock = 0
    /\ task_pc = [t \in TaskIds |-> "idle"]
    /\ documents_id = [t \in TaskIds |-> 0]
    /\ uploaded_doc = [t \in TaskIds |-> 0]
    /\ metadata_map = [d \in IngestDocIds |-> 0]
    /\ items = "unset"
    /\ parse_calls = [t \in TaskIds |-> <<>>]
    /\ abandoned = {}
    /\ retrieved = [t \in TaskIds |-> "unset"]
    /\ RetrieveIdle
    /\ SelectIdle
    /\ GetItemsIdle

TaskStep(t) ==
    \/ AcquireSemaphore(t)
    \/ RetrieveItem(t)
    \/ AcquireLockUpload(t)
    \/ UploadDocuments(t)
    \/ ListFirstDocument(t)
    \/ AppendDocumentId(t)
    \/ SubmitParse(t)
    \/ RetryParse(t)
    \/ AcquireLockLog(t)
    \/ LogProcessed(t)
    \/ AcquireLockMeta(t)
    \/ WriteMetadata(t)
    \/ ReleaseSemaphore(t)

NextIngest ==
    \/ DriverDispatch
    \/ \E t \in TaskIds : TaskStep(t)
    \/ DriverReturn

SpecIngest == InitIngest /\ [][NextIngest]_vars

\* The main thread and every worker thread keep running when they can;
\* threading.Lock and threading.Semaphore promise no order among waiters.
IngestFairness ==
    /\ WF_vars(DriverDispatch)
    /\ WF_vars(DriverReturn)
    /\ \A t \in TaskIds : WF_vars(TaskStep(t))

\* The driver is called on a dataset that holds nothing yet.
InitIngestEmpty == InitIngest /\ docs = <<>>

SpecIngestFair == InitIngestEmpty /\ [][NextIngest]_vars /\ IngestFairness

\* ------------------------------------------- the files of folder_path
\* The steps of one task between taking its permit and asking for the lock,
\* one action per access to folder_path. Every task writes into the same
\* folder_path; the file name is the name of the item's primary PDF
\* bitstream.
FilePath(t) == pdf_name[items_ids[t]]

ingestRest == <<docs, document_ids, monVars, items, parse_calls, abandoned, driver,
                drv_pc, max_concurrent_tasks, items_ids, semaphore, lock, documents_id,
                uploaded_doc, metadata_map, retVars, selVars, getVars, listVars>>

\* get_item_details, the bitstream list, the primary PDF and its
\* retrieveLink: any of them missing answers (None, None).
RetrieveDetails(t) ==
    /\ task_pc[t] = "retrieve"
    /\ ret_pc[t] = "idle"
    /\ \E found \in BOOLEAN :
        IF found
        THEN /\ ret_pc' = [ret_pc EXCEPT ![t] = "exists"]
             /\ UNCHANGED <<task_pc, retrieved>>
        ELSE /\ ret_pc' = [ret_pc EXCEPT ![t] = "done"]
             /\ retrieved' = [retrieved EXCEPT ![t] = "none"]
             /\ task_pc' = [task_pc EXCEPT ![t] = "release"]
    /\ UNCHANGED <<pdf_name, local_files, writers, blob>>
    /\ UNCHANGED ingestRest

\* if os.path.exists(file_path): the download is skipped for any file that
\* is there, whoever created it and whether or not it is complete.
CheckExists(t) ==
    /\ task_pc[t] = "retrieve"
    /\ ret_pc[t] = "exists"
    /\ ret_pc' = [ret_pc EXCEPT ![t] =
                  IF local_files[FilePath(t)] # "absent" THEN "read" ELSE "request"]
    /\ UNCHANGED <<task_pc, retrieved, pdf_name, local_files, writers, blob>>
    /\ UNCHANGED ingestRest

\* download_file: requests.get, and on 200 open(file_path, "wb"), which
\* creates the file or truncates it; any other status writes nothing.
DownloadOpen(t) ==
    /\ task_pc[t] = "retrieve"
    /\ ret_pc[t] = "request"
    /\ \E status_200 \in BOOLEAN :
        IF status_200
        THEN /\ local_files' = [local_files EXCEPT ![FilePath(t)] = "partial"]
             /\ writers' = [writers EXCEPT ![FilePath(t)] = @ \cup {t}]
             /\ ret_pc' = [ret_pc EXCEPT ![t] = "write"]
        ELSE /\ ret_pc' = [ret_pc EXCEPT ![t] = "read"]
             /\ UNCHANGED <<local_files, writers>>
    /\ UNCHANGED <<task_pc, retrieved, pdf_name, blob>>
    /\ UNCHANGED ingestRest

\* The chunks are written and the file is closed; the file is whole once
\* nobody writes it any more.
DownloadClose(t) ==
    /\ task_pc[t] = "retrieve"
    /\ ret_pc[t] = "write"
    /\ writers' = [writers EXCEPT ![FilePath(t)] = @ \ {t}]
    /\ local_files' = [local_files EXCEPT ![FilePath(t)] =
                       IF writers[FilePath(t)] = {t} THEN "complete" ELSE "partial"]
    /\ ret_pc' = [ret_pc EXCEPT ![t] = "read"]
    /\ UNCHANGED <<task_pc, retrieved, pdf_name, blob>>
    /\ UNCHANGED ingestRest

\* process_item: generate_document_list([file_path]) reads the file into
\* the blob to upload, before the lock is asked for; a file that is not
\* there raises.
GenerateDocumentList(t) ==
    /\ task_pc[t] = "retrieve"
    /\ ret_pc[t] = "read"
    /\ ret_pc' = [ret_pc EXCEPT ![t] = "done"]
    /\ IF local_files[FilePath(t)] = "absent"
       THEN /\ retrieved' = [retrieved EXCEPT ![t] = "missing"]
            /\ task_pc' = [task_pc EXCEPT ![t] = "release_exc"]
            /\ UNCHANGED blob
       ELSE /\ retrieved' = [retrieved EXCEPT ![t] = "pdf"]
            /\ blob' = [blob EXCEPT ![t] = local_files[FilePath(t)]]
            /\ task_pc' = [task_pc EXCEPT ![t] = "lock_upload"]
    /\ UNCHANGED <<pdf_name, local_files, writers>>
    /\ UNCHANGED ingestRest

\* A driver call on an empty dataset; folder_path may hold files of an
\* earlier run, and two items may name their PDF alike.
InitFiles ==
    /\ docs = <<>>
    /\ document_ids = <<>>
    /\ mon_pc = "idle"
    /\ MonitorFresh
    /\ ListingIdle
    /\ driver \in {"items", "collections"}
    /\ drv_pc = "enumerate"
    /\ max_concurrent_tasks \in 1..MaxItems
    /\ items_ids = <<>>
    /\ semaphore = max_concurrent_tasks
    /\ lock = 0
    /\ task_pc = [t \in TaskIds |-> "idle"]
    /\ documents_id = [t \in TaskIds |-> 0]
    /\ uploaded_doc = [t \in TaskIds |-> 0]
    /\ metadata_map = [d \in IngestDocIds |-> 0]
    /\ items = "unset"
    /\ parse_calls = [t \in TaskIds |-> <<>>]
    /\ abandoned = {}
    /\ retrieved = [t \in TaskIds |-> "unset"]
    /\ RetrieveIdle
    /\ SelectIdle
    /\ GetItemsIdle
    /\ pdf_name \in [TaskIds -> TaskIds]
    /\ ret_pc = [t \in TaskIds |-> "idle"]
    /\ local_files \in [TaskIds -> {"absent", "complete"}]
    /\ writers = [f \in TaskIds |-> {}]
    /\ blob = [t \in TaskIds |-> "unset"]

FileStep(t) ==
    \/ AcquireSemaphore(t)
    \/ RetrieveDetails(t)
    \/ CheckExists(t)
    \/ DownloadOpen(t)
    \/ DownloadClose(t)
    \/ GenerateDocumentList(t)
    \/ AcquireLockUpload(t)
    \/ UploadDocuments(t)
    \/ ListFirstDocument(t)
    \/ AppendDocumentId(t)
    \/ SubmitParse(t)
    \/ RetryParse(t)
    \/ AcquireLockLog(t)
    \/ LogProcessed(t)
    \/ AcquireLockMeta(t)
    \/ WriteMetadata(t)
    \/ ReleaseSemaphore(t)

NextFiles ==
    \/ DriverDispatch
    \/ \E t \in TaskIds : FileStep(t)
    \/ DriverReturn

SpecFiles == InitFiles /\ [][NextFiles]_vars

\* ------------------------------------------------- the pipeline script
\* asyncio.run(monitor_parsing(dataset, document_ids, POLL_INTERVAL)): the
\* statement after the driver's call, reached when the driver returned. The
\* driver's locals and its tasks are gone by then, and the script drops the
\* map the driver returned; the dataset and the tracking list stay.
StartMonitoring ==
    /\ drv_pc = "returned"
    /\ mon_pc = "idle"
    /\ mon_pc' = "start"
    /\ drv_pc' = "idle"
    /\ max_concurrent_tasks' = 1
    /\ items_ids' = <<>>
    /\ semaphore' = 1
    /\ lock' = 0
    /\ task_pc' = [t \in TaskIds |-> "idle"]
    /\ documents_id' = [t \in TaskIds |-> 0]
    /\ uploaded_doc' = [t \in TaskIds |-> 0]
    /\ metadata_map' = [d \in IngestDocIds |-> 0]
    /\ items' = "unset"
    /\ parse_calls' = [t \in TaskIds |-> <<>>]
    /\ retrieved' = [t \in TaskIds |-> "unset"]
    /\ UNCHANGED <<docs, document_ids, progress_bars, notified, retry_count, aborted,
                   cb_calls, cb_status, cb_raised, parse_submits, done_reports, list_failed,
                   driver, abandoned>>
    /\ UNCHANGED dspaceVars

\* The script: the driver, then the monitor on the same tracking list.
NextPipeline ==
    \/ NextIngest
    \/ StartMonitoring
    \/ NextMonitor

SpecPipeline == InitIngest /\ [][NextPipeline]_vars

\* ------------------------------------------------ item and file retrieval
Responses == {"ok", "status_error", "exception", "no_answer"}

BitstreamKinds == {"none", "no_pdf", "pdf_no_link", "pdf"}

DownloadResponses == {"ok", "status_error", "connect_error", "stream_error", "no_answer"}

\* get_item_metadata: the metadata of the item, or None on a non-200 answer
\* and on an exception of the request; timeout=120 turns a service that
\* does not answer into an exception.
get_item_metadata(response) == IF response = "ok" THEN "metadata" ELSE "none"

\* get_item_details that gives no result when the metadata is missing.
get_item_details_MetadataRequired(item, metadata) ==
    IF item = "ok" /\ get_item_metadata(metadata) # "none" THEN "full" ELSE "none"

\* get_item_details: None on a non-200 answer and on an exception of the
\* item request; otherwise the details, with `metadata or {}`.
get_item_details(item, metadata) ==
    IF item # "ok" THEN "none"
    ELSE IF get_item_metadata(metadata) = "none" THEN "no_metadata" ELSE "full"

\* item_details = get_item_details(base_url_rest, item_id)
GetItemDetails ==
    /\ rf_pc = "details"
    /\ item_details' = get_item_details(item_response, metadata_response)
    /\ rf_pc' = "bitstreams"
    /\ UNCHANGED <<item_response, metadata_response, bitstreams, download_response,
                   file_exists, rf_result, download_requests>>
    /\ UNCHANGED <<extVars, docs, document_ids, monVars, ingVars>>
    /\ UNCHANGED <<selVars, getVars>>

\* The early returns of retrieve_item_file: no details, no bitstreams, no
\* PDF among them, no retrieveLink on the chosen one.
SelectBitstream ==
    /\ rf_pc = "bitstreams"
    /\ IF item_details = "none" \/ bitstreams # "pdf"
       THEN rf_result' = "none" /\ rf_pc' = "returned"
       ELSE rf_result' = rf_result /\ rf_pc' = "exists"
    /\ UNCHANGED <<item_response, metadata_response, bitstreams, download_response,
                   file_exists, item_details, download_requests>>
    /\ UNCHANGED <<extVars, docs, document_ids, monVars, ingVars>>
    /\ UNCHANGED <<selVars, getVars>>

\* CheckFileExists that downloads whether or not the file is there.
CheckFileExists_AlwaysDownload ==
    /\ rf_pc = "exists"
    /\ rf_result' = rf_result
    /\ rf_pc' = "download"
    /\ UNCHANGED <<item_response, metadata_response, bitstreams, download_response,
                   file_exists, item_details, download_requests>>
    /\ UNCHANGED <<extVars, docs, document_ids, monVars, ingVars>>
    /\ UNCHANGED <<selVars, getVars>>

\* `if os.path.exists(file_path)`: the download is skipped and the path
\* returned.
CheckFileExists ==
    /\ rf_pc = "exists"
    /\ IF file_exists
       THEN rf_result' = "path" /\ rf_pc' = "returned"
       ELSE rf_result' = rf_result /\ rf_pc' = "download"
    /\ UNCHANGED <<item_response, metadata_response, bitstreams, download_response,
                   file_exists, item_details, download_requests>>
    /\ UNCHANGED <<extVars, docs, document_ids, monVars, ingVars>>
    /\ UNCHANGED <<selVars, getVars>>

\* download_file: requests.get outside any try and without timeout; a 200
\* answer is written to the file chunk by chunk, another status is only
\* reported, and the call does not come back from a service that does not
\* answer.
download_file(response) ==
    CASE response = "ok" -> [returns |-> TRUE, raises |-> FALSE, written |-> TRUE]
      [] response = "status_error" -> [returns |-> TRUE, raises |-> FALSE, written |-> FALSE]
      [] response = "connect_error" -> [returns |-> FALSE, raises |-> TRUE, written |-> FALSE]
      [] response = "stream_error" -> [returns |-> FALSE, raises |-> TRUE, written |-> TRUE]
      [] response = "no_answer" -> [returns |-> FALSE, raises |-> FALSE, written |-> FALSE]

\* download_file(...) and `return file_path, item_details`.
DownloadFile ==
    /\ rf_pc = "download"
    /\ download_requests' = download_requests + 1
    /\ LET d == download_file(download_response)
       IN /\ file_exists' = d.written
          /\ rf_result' = IF d.returns THEN "path" ELSE rf_result
          /\ rf_pc' = CASE d.returns -> "returned"
                        [] d.raises -> "raised"
                        [] OTHER -> "blocked"
    /\ UNCHANGED <<item_response, metadata_response, bitstreams, download_response,
                   item_details>>
    /\ UNCHANGED <<extVars, docs, document_ids, monVars, ingVars>>
    /\ UNCHANGED <<selVars, getVars>>

\* One call of retrieve_item_file for an item of the source repository.
InitRetrieve ==
    /\ docs = <<>>
    /\ document_ids = <<>>
    /\ mon_pc = "idle"
    /\ MonitorFresh
    /\ ExtIdle
    /\ IngestIdle
    /\ rf_pc = "details"
    /\ item_response \in Responses
    /\ metadata_response \in Responses
    /\ bitstreams \in BitstreamKinds
    /\ download_response \in DownloadResponses
    /\ file_exists \in BOOLEAN
    /\ item_details = "unset"
    /\ rf_result = "unset"
    /\ download_requests = 0
    /\ SelectIdle
    /\ GetItemsIdle

NextRetrieve ==
    \/ GetItemDetails
    \/ SelectBitstream
    \/ CheckFileExists
    \/ DownloadFile

SpecRetrieve == InitRetrieve /\ [][NextRetrieve]_vars

\* -------------------------------------------- the primary PDF bitstream
\* The names of bitstreams, by their extension as it is written.
Names == {"pdf", "PDF", "txt"}

Bundles == {"ORIGINAL", "OTHER"}

Bitstreams == [name : Names, bundleName : Bundles, sizeBytes : 0..MaxSize]

RECURSIVE BitstreamLists(_)
BitstreamLists(n) ==
    IF n = 0 THEN {<<>>}
    ELSE LET shorter == BitstreamLists(n - 1)
         IN shorter \cup {Append(l, b) : l \in {m \in shorter : Len(m) = n - 1},
                                           b \in Bitstreams}

\* str.lower() on the extension.
Lower(name) == IF name = "PDF" THEN "pdf" ELSE name

\* [b for b in bs if ...]: the positions of bs from i on that are in keep,
\* in the order of bs.
RECURSIVE Positions(_, _, _)
Positions(bs, keep, i) ==
    IF i > Len(bs) THEN <<>>
    ELSE (IF i \in keep THEN <<i>> ELSE <<>>) \o Positions(bs, keep, i + 1)

\* MaxBySize that keeps the last of the largest.
RECURSIVE MaxBySize_LastSeen(_, _)
MaxBySize_LastSeen(bs, ps) ==
    IF Len(ps) = 1 THEN ps[1]
    ELSE LET best == MaxBySize_LastSeen(bs, SubSeq(ps, 1, Len(ps) - 1))
             last == ps[Len(ps)]
         IN IF bs[last].sizeBytes >= bs[best].sizeBytes THEN last ELSE best

\* max(ps, key=lambda x: x.get("sizeBytes", 0)): the first of the largest.
RECURSIVE MaxBySize(_, _)
MaxBySize(bs, ps) ==
    IF Len(ps) = 1 THEN ps[1]
    ELSE LET best == MaxBySize(bs, SubSeq(ps, 1, Len(ps) - 1))
             last == ps[Len(ps)]
         IN IF bs[last].sizeBytes > bs[best].sizeBytes THEN last ELSE best

\* get_primary_pdf_bitstream, answering the position of the bitstream.
get_primary_pdf_bitstream(bs) ==
    LET IsPdf(i) == Lower(bs[i].name) = "pdf"
        IsOriginalPdf(i) == IsPdf(i) /\ bs[i].bundleName = "ORIGINAL"
        pdf_bitstreams == Positions(bs, {i \in 1..Len(bs) : IsPdf(i)}, 1)
        original_pdfs == Positions(bs, {i \in 1..Len(bs) : IsOriginalPdf(i)}, 1)
    IN IF bs = <<>> THEN 0
       ELSE IF pdf_bitstreams = <<>> THEN 0
       ELSE IF original_pdfs # <<>> THEN MaxBySize(bs, original_pdfs)
       ELSE MaxBySize(bs, pdf_bitstreams)

\* primary_bitstream = get_primary_pdf_bitstream(bitstreams)
SelectPrimary ==
    /\ sel_pc = "call"
    /\ primary_bitstream' = get_primary_pdf_bitstream(bitstream_list)
    /\ sel_pc' = "done"
    /\ UNCHANGED bitstream_list
    /\ UNCHANGED <<extVars, docs, document_ids, monVars, ingVars, retVars, getVars>>

\* get_primary_pdf_bitstream is called with the bitstreams of an item.
InitSelect ==
    /\ docs = <<>>
    /\ document_ids = <<>>
    /\ mon_pc = "idle"
    /\ MonitorFresh
    /\ ExtIdle
    /\ IngestIdle
    /\ RetrieveIdle
    /\ sel_pc = "call"
    /\ bitstream_list \in BitstreamLists(MaxBitstreams)
    /\ primary_bitstream = 0
    /\ GetItemsIdle

NextSelect == SelectPrimary

SpecSelect == InitSelect /\ [][NextSelect]_vars

\* --------------------------------------------------- item enumeration
\* The pages the repository can answer: the uuid of each record, 0 for a
\* record without uuid; up to n records.
RECURSIVE Pages(_)
Pages(n) ==
    IF n = 0 THEN {<<>>}
    ELSE LET shorter == Pages(n - 1)
         IN shorter \cup {Append(pg, u) : pg \in {q \in shorter : Len(q) = n - 1},
                                            u \in 0..MaxUuid}

\* A delay that grows by one second per attempt.
Pow2_Linear(k) == k + 1

RECURSIVE Pow2(_)
Pow2(k) == IF k = 0 THEN 1 ELSE 2 * Pow2(k - 1)

\* DedupePage that compares with the earlier pages only.
RECURSIVE DedupePage_EarlierPagesOnly(_, _, _, _, _)
DedupePage_EarlierPagesOnly(page, seen, unique_items, have, cap) ==
    IF page = <<>>
    THEN [seen |-> seen \cup Range(unique_items), unique_items |-> unique_items]
    ELSE LET uuid == Head(page)
         IN IF uuid # 0 /\ uuid \notin seen
            THEN LET unique2 == Append(unique_items, uuid)
                 IN IF cap # NoLimit /\ have + Len(unique2) >= cap
                    THEN [seen |-> seen \cup Range(unique2), unique_items |-> unique2]
                    ELSE DedupePage_EarlierPagesOnly(Tail(page), seen, unique2, have, cap)
            ELSE DedupePage_EarlierPagesOnly(Tail(page), seen, unique_items, have, cap)

\* DedupePage that goes through the whole page whatever the cap.
RECURSIVE DedupePage_NoCapBreak(_, _, _, _, _)
DedupePage_NoCapBreak(page, seen, unique_items, have, cap) ==
    IF page = <<>> THEN [seen |-> seen, unique_items |-> unique_items]
    ELSE LET uuid == Head(page)
         IN IF uuid # 0 /\ uuid \notin seen
            THEN DedupePage_NoCapBreak(Tail(page), seen \cup {uuid},
                                       Append(unique_items, uuid), have, cap)
            ELSE DedupePage_NoCapBreak(Tail(page), seen, unique_items, have, cap)

\* `for item in items_retrieved` of get_items: the records not seen before,
\* up to the cap; have = len(items).
RECURSIVE DedupePage(_, _, _, _, _)
DedupePage(page, seen, unique_items, have, cap) ==
    IF page = <<>> THEN [seen |-> seen, unique_items |-> unique_items]
    ELSE LET uuid == Head(page)
         IN IF uuid # 0 /\ uuid \notin seen
            THEN LET seen2 == seen \cup {uuid}
                     unique2 == Append(unique_items, uuid)
                 IN IF cap # NoLimit /\ have + Len(unique2) >= cap
                    THEN [seen |-> seen2, unique_items |-> unique2]
                    ELSE DedupePage(Tail(page), seen2, unique2, have, cap)
            ELSE DedupePage(Tail(page), seen, unique_items, have, cap)

\* The head of `while True` asking for a whole page whatever the cap.
LoopHead_PageSizeAlways ==
    /\ gi_pc = "loop"
    /\ current_limit' = limit_items_page
    /\ IF limit_items # NoLimit /\ Len(gi_items) >= limit_items
       THEN /\ gi_pc' = "returned"
            /\ gi_result' = "items"
            /\ UNCHANGED <<attempt, page_limits, sleeps>>
       ELSE /\ gi_pc' = "request"
            /\ attempt' = 0
            /\ sleeps' = <<>>
            /\ page_limits' = Append(page_limits, limit_items_page)
            /\ UNCHANGED gi_result
    /\ UNCHANGED <<limit_items_page, limit_items, max_retries, gi_items, seen_uuids,
                   offset, items_retrieved, short_page, last_answer>>
    /\ UNCHANGED <<extVars, docs, document_ids, monVars, ingVars, retVars, selVars>>

\* The head of `while True`: current_limit, the test of the cap, params.
LoopHead ==
    /\ gi_pc = "loop"
    /\ LET lim == IF limit_items # NoLimit
                  THEN Min(limit_items - Len(gi_items), limit_items_page)
                  ELSE limit_items_page
       IN /\ current_limit' = lim
          /\ IF limit_items # NoLimit /\ Len(gi_items) >= limit_items
             THEN /\ gi_pc' = "returned"
                  /\ gi_result' = "items"
                  /\ UNCHANGED <<attempt, page_limits, sleeps>>
             ELSE /\ gi_pc' = "request"
                  /\ attempt' = 0
                  /\ sleeps' = <<>>
                  /\ page_limits' = Append(page_limits, lim)
                  /\ UNCHANGED gi_result
    /\ UNCHANGED <<limit_items_page, limit_items, max_retries, gi_items, seen_uuids,
                   offset, items_retrieved, short_page, last_answer>>
    /\ UNCHANGED <<extVars, docs, document_ids, monVars, ingVars, retVars, selVars>>

\* requests.get raises: the last attempt returns None, the others sleep
\* 2**attempt seconds and go on.
RequestRaises ==
    /\ gi_pc = "request"
    /\ last_answer' = "exception"
    /\ attempt' = attempt + 1
    /\ IF attempt = max_retries - 1
       THEN /\ gi_pc' = "returned"
            /\ gi_result' = "none"
            /\ UNCHANGED sleeps
       ELSE /\ sleeps' = Append(sleeps, Pow2(attempt))
            /\ UNCHANGED <<gi_pc, gi_result>>
    /\ UNCHANGED <<limit_items_page, limit_items, max_retries, gi_items, seen_uuids,
                   offset, current_limit, items_retrieved, page_limits, short_page>>
    /\ UNCHANGED <<extVars, docs, document_ids, monVars, ingVars, retVars, selVars>>

\* A refused request handled as a transport failure: retried after a delay.
RequestRefused_Retried ==
    /\ gi_pc = "request"
    /\ last_answer' = "status_error"
    /\ attempt' = attempt + 1
    /\ IF attempt = max_retries - 1
       THEN /\ gi_pc' = "returned"
            /\ gi_result' = "none"
            /\ UNCHANGED sleeps
       ELSE /\ sleeps' = Append(sleeps, Pow2(attempt))
            /\ UNCHANGED <<gi_pc, gi_result>>
    /\ UNCHANGED <<limit_items_page, limit_items, max_retries, gi_items, seen_uuids,
                   offset, current_limit, items_retrieved, page_limits, short_page>>
    /\ UNCHANGED <<extVars, docs, document_ids, monVars, ingVars, retVars, selVars>>

\* The answer has another status than 200: return None.
RequestRefused ==
    /\ gi_pc = "request"
    /\ last_answer' = "status_error"
    /\ gi_pc' = "returned"
    /\ gi_result' = "none"
    /\ UNCHANGED <<limit_items_page, limit_items, max_retries, gi_items, seen_uuids,
                   offset, current_limit, attempt, items_retrieved, page_limits, sleeps,
                   short_page>>
    /\ UNCHANGED <<extVars, docs, document_ids, monVars, ingVars, retVars, selVars>>

\* A 200 answer where a page shorter than asked for ends the loop too.
PageReceived_StopOnShortPage ==
    /\ gi_pc = "request"
    /\ \E page \in Pages(MaxPage) :
        LET d == DedupePage(page, seen_uuids, <<>>, Len(gi_items), limit_items)
            over == page = <<>> \/ d.unique_items = <<>> \/ Len(page) < current_limit
        IN /\ items_retrieved' = page
           /\ gi_items' = IF page = <<>> THEN gi_items ELSE gi_items \o d.unique_items
           /\ seen_uuids' = IF page = <<>> THEN seen_uuids ELSE d.seen
           /\ offset' = offset + Len(page)
           /\ gi_pc' = IF over THEN "returned" ELSE "loop"
           /\ gi_result' = IF over THEN "items" ELSE gi_result
           /\ short_page' = (short_page \/ Len(page) < current_limit)
    /\ last_answer' = "page"
    /\ UNCHANGED <<limit_items_page, limit_items, max_retries, current_limit, attempt,
                   page_limits, sleeps>>
    /\ UNCHANGED <<extVars, docs, document_ids, monVars, ingVars, retVars, selVars>>

\* A 200 answer where only an empty page ends the loop.
PageReceived_StopOnEmptyOnly ==
    /\ gi_pc = "request"
    /\ \E page \in Pages(MaxPage) :
        LET d == DedupePage(page, seen_uuids, <<>>, Len(gi_items), limit_items)
            over == page = <<>>
        IN /\ items_retrieved' = page
           /\ gi_items' = IF page = <<>> THEN gi_items ELSE gi_items \o d.unique_items
           /\ seen_uuids' = IF page = <<>> THEN seen_uuids ELSE d.seen
           /\ offset' = offset + Len(page)
           /\ gi_pc' = IF over THEN "returned" ELSE "loop"
           /\ gi_result' = IF over THEN "items" ELSE gi_result
           /\ short_page' = (short_page \/ Len(page) < current_limit)
    /\ last_answer' = "page"
    /\ UNCHANGED <<limit_items_page, limit_items, max_retries, current_limit, attempt,
                   page_limits, sleeps>>
    /\ UNCHANGED <<extVars, docs, document_ids, monVars, ingVars, retVars, selVars>>

\* A 200 answer: the page is deduplicated into items; an empty page and a
\* page without a new item end the loop.
PageReceived ==
    /\ gi_pc = "request"
    /\ \E page \in Pages(MaxPage) :
        LET d == DedupePage(page, seen_uuids, <<>>, Len(gi_items), limit_items)
            over == page = <<>> \/ d.unique_items = <<>>
        IN /\ items_retrieved' = page
           /\ gi_items' = IF page = <<>> THEN gi_items ELSE gi_items \o d.unique_items
           /\ seen_uuids' = IF page = <<>> THEN seen_uuids ELSE d.seen
           /\ offset' = offset + Len(page)
           /\ gi_pc' = IF over THEN "returned" ELSE "loop"
           /\ gi_result' = IF over THEN "items" ELSE gi_result
           /\ short_page' = (short_page \/ Len(page) < current_limit)
    /\ last_answer' = "page"
    /\ UNCHANGED <<limit_items_page, limit_items, max_retries, current_limit, attempt,
                   page_limits, sleeps>>
    /\ UNCHANGED <<extVars, docs, document_ids, monVars, ingVars, retVars, selVars>>

\* get_items is called with a page size, a cap or none, and a retry budget.
InitItems ==
    /\ docs = <<>>
    /\ document_ids = <<>>
    /\ mon_pc = "idle"
    /\ MonitorFresh
    /\ ExtIdle
    /\ IngestIdle
    /\ RetrieveIdle
    /\ SelectIdle
    /\ gi_pc = "loop"
    /\ limit_items_page \in 1..MaxPage
    /\ limit_items \in {NoLimit} \cup 0..MaxCap
    /\ max_retries \in 1..MaxAttempts
    /\ gi_items = <<>>
    /\ seen_uuids = {}
    /\ offset = 0
    /\ current_limit = 0
    /\ attempt = 0
    /\ items_retrieved = <<>>
    /\ gi_result = "unset"
    /\ page_limits = <<>>
    /\ sleeps = <<>>
    /\ short_page = FALSE
    /\ last_answer = "unset"

NextItems ==
    \/ LoopHead
    \/ RequestRaises
    \/ RequestRefused
    \/ PageReceived

SpecItems == InitItems /\ [][NextItems]_vars

\* get_items called with its default retry budget on a repository that
\* answers every request, by a page or by a refusal.
InitItemsAnswered == InitItems /\ max_retries = 3

NextItemsAnswered ==
    \/ LoopHead
    \/ RequestRefused
    \/ PageReceived

\* get_items runs on, and every request it makes is answered.
ItemsFairness ==
    /\ WF_vars(LoopHead)
    /\ WF_vars(RequestRefused \/ PageReceived)

SpecItemsAnswered == InitItemsAnswered /\ [][NextItemsAnswered]_vars /\ ItemsFairness

\* ------------------------------------------------ get_all_documents
\* The pages dataset.list_documents may answer: documents of the dataset,
\* up to MaxListLen of them, whatever page_size was asked for.
RECURSIVE DocPages(_)
DocPages(n) ==
    IF n = 0 THEN {<<>>}
    ELSE LET shorter == DocPages(n - 1)
         IN shorter \cup {Append(pg, d) : pg \in {q \in shorter : Len(q) = n - 1},
                                            d \in 1..MaxListDoc}

\* `if dataset is None: return []`, else all_documents = [], page = 1.
ListingStart ==
    /\ gad_pc = "call"
    /\ gad_pc' = IF dataset = "none" THEN "returned" ELSE "fetch"
    /\ UNCHANGED <<dataset, page_size, gad_page, all_documents, fetched>>
    /\ UNCHANGED <<docs, document_ids, monVars, ingVars, retVars, selVars, getVars, fileVars>>

\* ListPage that drops a page shorter than page_size.
ListPage_DropPartial ==
    /\ gad_pc = "fetch"
    /\ Len(fetched) < MaxListCalls
    /\ \E raises \in BOOLEAN, documents \in DocPages(MaxListLen) :
        /\ raises => documents = <<>>
        /\ fetched' = Append(fetched, [page |-> gad_page, raises |-> raises,
                                       documents |-> documents])
        /\ IF raises \/ documents = <<>> \/ Len(documents) < page_size
           THEN /\ gad_pc' = "returned"
                /\ UNCHANGED <<gad_page, all_documents>>
           ELSE /\ all_documents' = all_documents \o documents
                /\ gad_page' = gad_page + 1
                /\ UNCHANGED gad_pc
    /\ UNCHANGED <<dataset, page_size>>
    /\ UNCHANGED <<docs, document_ids, monVars, ingVars, retVars, selVars, getVars, fileVars>>

\* One turn of `while True`: list_documents(page=page, page_size=page_size)
\* raises (break), answers nothing (break), or answers documents that are
\* appended; a page shorter than page_size breaks, else page += 1.
ListPage ==
    /\ gad_pc = "fetch"
    /\ Len(fetched) < MaxListCalls
    /\ \E raises \in BOOLEAN, documents \in DocPages(MaxListLen) :
        /\ raises => documents = <<>>
        /\ fetched' = Append(fetched, [page |-> gad_page, raises |-> raises,
                                       documents |-> documents])
        /\ IF raises \/ documents = <<>>
           THEN /\ gad_pc' = "returned"
                /\ UNCHANGED <<gad_page, all_documents>>
           ELSE /\ all_documents' = all_documents \o documents
                /\ IF Len(documents) < page_size
                   THEN /\ gad_pc' = "returned"
                        /\ UNCHANGED gad_page
                   ELSE /\ gad_page' = gad_page + 1
                        /\ UNCHANGED gad_pc
    /\ UNCHANGED <<dataset, page_size>>
    /\ UNCHANGED <<docs, document_ids, monVars, ingVars, retVars, selVars, getVars, fileVars>>

\* get_all_documents is called with a dataset or None and a page size.
InitListing ==
    /\ docs = <<>>
    /\ document_ids = <<>>
    /\ mon_pc = "idle"
    /\ MonitorFresh
    /\ IngestIdle
    /\ RetrieveIdle
    /\ SelectIdle
    /\ GetItemsIdle
    /\ FilesIdle
    /\ gad_pc = "call"
    /\ dataset \in {"none", "dataset"}
    /\ page_size \in 1..MaxPageSize
    /\ gad_page = 1
    /\ all_documents = <<>>
    /\ fetched = <<>>

NextListing ==
    \/ ListingStart
    \/ ListPage

SpecListing == InitListing /\ [][NextListing]_vars

\* ------------------------------------------------- claims on the monitor
TrackedIds == Range(document_ids)

\* Untracked documents the dataset holds unstarted.
Orphans ==
    {docs[i].id : i \in {j \in 1..Len(docs) :
        docs[j].run = "UNSTART" /\ docs[j].id \notin TrackedIds}}

ReturnedNormally == mon_pc = "returned" /\ ~aborted

C3_ReturnsOnlyAfterTerminalPass ==
    [][(mon_pc = "poll" /\ mon_pc' = "returned" /\ ~aborted') =>
          /\ \A d \in Range(document_ids') :
                \E i \in 1..Len(docs) :
                    docs[i].id = d /\ docs[i].run \in {"DONE", "FAIL"}
          /\ Orphans = {}]_vars

\* C4: an untracked UNSTART document listed by a poll is submitted for
\* parsing and appended to the tracking list, and the loop is not left in
\* that iteration: whatever a pass submits is an orphan, is tracked after
\* the pass and keeps the loop open, and a pass that runs to its end
\* submits every orphan of its listing exactly once.
C4_OrphanReadopted ==
    [][mon_pc = "poll" =>
          /\ \A d \in DocIds :
                parse_submits'[d] # parse_submits[d] =>
                    /\ d \in Orphans
                    /\ d \in Range(document_ids')
                    /\ parse_submits'[d] = parse_submits[d] + 1
                    /\ mon_pc' \in {"sleep", "retry_wait"} \/ aborted'
          /\ (mon_pc' \in {"sleep", "returned"} /\ ~aborted') =>
                \A d \in Orphans :
                    /\ parse_submits'[d] = parse_submits[d] + 1
                    /\ d \in Range(document_ids')
                    /\ mon_pc' = "sleep"]_vars

\* An orphan was submitted and is tracked, and the monitor sleeps before
\* its next poll.
C4_Witness ==
    /\ mon_pc = "sleep"
    /\ \E d \in DocIds : parse_submits[d] = 1 /\ d \in TrackedIds

Processing == {t \in TaskIds : task_pc[t] \in InProcessItem}

\* The upload -> list -> append block of process_item.
UploadBlock == {"upload", "list", "append"}

\* C8: at every instant of process_items_in_parallel and of
\* process_collections_in_parallel at most max_concurrent_tasks tasks are
\* executing process_item.
C8_AtMostNProcessing == Cardinality(Processing) <= max_concurrent_tasks

\* The limit is reached while a dispatched task waits for a permit.
C8_Witness ==
    /\ Cardinality(Processing) = max_concurrent_tasks
    /\ \E t \in TaskIds : task_pc[t] = "queued"

\* C9: at most one task at a time is inside the upload, list, append block,
\* and every write to the tracking list and to the metadata map is made by
\* the task that holds the lock.
C9_LockSerializesWrites ==
    [][/\ Cardinality({t \in TaskIds : task_pc'[t] \in UploadBlock}) <= 1
       /\ (document_ids' # document_ids \/ metadata_map' # metadata_map) =>
             /\ lock \in TaskIds
             /\ task_pc[lock] \in {"append", "meta"}
             /\ task_pc'[lock] # task_pc[lock]]_vars

\* A task is inside the block while another one waits for the lock.
C9_Witness ==
    \E t1, t2 \in TaskIds :
        /\ task_pc[t1] = "list" /\ lock = t1
        /\ task_pc[t2] = "lock_upload"

\* C10: with no other writer and the newest document listed first, the id a
\* task reads, appends and returns is the id of the document its own upload
\* created; no two tasks hold the same id, and the metadata map associates
\* a document id with the item of the task that uploaded that document.
C10_OwnDocumentId ==
    /\ \A t \in TaskIds : documents_id[t] # 0 => documents_id[t] = uploaded_doc[t]
    /\ \A t1, t2 \in TaskIds :
          (t1 # t2 /\ documents_id[t1] # 0) => documents_id[t1] # documents_id[t2]
    /\ \A i \in 1..Len(document_ids) :
          \E t \in TaskIds : uploaded_doc[t] = document_ids[i]
    /\ \A d \in IngestDocIds :
          metadata_map[d] # 0 =>
              \E t \in Dispatched : uploaded_doc[t] = d /\ items_ids[t] = metadata_map[d]

\* Two tasks ran concurrently, the second one uploaded first, and both
\* entries of the metadata map are written.
C10_Witness ==
    /\ max_concurrent_tasks >= 2
    /\ uploaded_doc[1] > uploaded_doc[2] /\ uploaded_doc[2] > 0
    /\ metadata_map[uploaded_doc[1]] = items_ids[1]
    /\ metadata_map[uploaded_doc[2]] = items_ids[2]

\* ------------------------------------------------------------------ C11
\* The tasks of the driver's call whose upload succeeded.
Uploaded == {t \in Dispatched : uploaded_doc[t] # 0}

\* C11: during ingestion and during monitoring the tracking list holds each
\* backend document id at most once, and when the ingestion driver returns
\* the list holds as many ids as items were uploaded successfully.
C11_TrackingListHasNoDuplicates ==
    /\ \A i, j \in 1..Len(document_ids) :
          i # j => document_ids[i] # document_ids[j]
    /\ drv_pc = "returned" => Len(document_ids) = Cardinality(Uploaded)

\* The driver returned after MaxItems uploads by tasks that ran side by side.
C11_Witness ==
    /\ drv_pc = "returned"
    /\ Cardinality(Uploaded) = MaxItems
    /\ Len(document_ids) = MaxItems
    /\ max_concurrent_tasks > 1

\* ------------------------------------------------------------------ C12
\* Task t is past its parse request: no further attempt will be made.
PastParse(t) ==
    /\ parse_calls[t] # <<>>
    /\ task_pc[t] \notin {"parse", "parse_retry"}

\* C12 as stated: whenever the first parse submission of an item fails, with
\* a connection error or with any other error, ingestion makes exactly one
\* further attempt, never zero and never more.
C12_EveryFailureRetriedOnce ==
    \A t \in TaskIds :
        PastParse(t) /\ parse_calls[t][1] # "ok" => Len(parse_calls[t]) = 2

\* C12 amended: a first submission that fails with a connection error is
\* followed by exactly one further attempt; one that fails with any other
\* error, or succeeds, is followed by none.
C12_OnlyConnectionErrorRetried ==
    \A t \in TaskIds :
        PastParse(t) =>
            Len(parse_calls[t]) = IF parse_calls[t][1] = "connection_error" THEN 2 ELSE 1

\* One task retried after a connection error, another gave up after another
\* error, and both are over.
C12_Witness ==
    \E t, u \in TaskIds :
        /\ task_pc[t] = "finished" /\ parse_calls[t] = <<"connection_error", "ok">>
        /\ task_pc[u] = "finished" /\ parse_calls[u] = <<"other_error">>

\* ------------------------------------------------------------------ C13
\* The retry of task t's parse request failed too.
RetryFailed(t) == Len(parse_calls[t]) = 2 /\ parse_calls[t][2] = "error"

\* C13: when the retry of the parse request fails too, process_item does not
\* raise, the id stays in the tracking list, and a driver whose tasks met no
\* other failure returns normally.
C13_SecondFailureAbandoned ==
    /\ \A t \in TaskIds :
          RetryFailed(t) => /\ task_pc[t] \notin {"release_exc", "failed"}
                            /\ documents_id[t] \in Range(document_ids)
    /\ ( /\ items = "list"
         /\ \A t \in Dispatched : task_pc[t] = "failed" => RetryFailed(t) )
       => drv_pc # "raised"

\* ------------------------------------------------------------------ C14
\* The documents ingestion gave up on that are still unstarted.
AbandonedUnstarted ==
    {docs[i].id : i \in {j \in 1..Len(docs) :
        docs[j].run = "UNSTART" /\ docs[j].id \in abandoned}}

\* C14: a document whose parse request ingestion abandoned is submitted for
\* parsing again by a pass of the monitor that lists it unstarted, and the
\* monitor does not return from a pass that lists it unstarted.
C14_AbandonedParseReadopted ==
    [][(mon_pc = "poll" /\ mon_pc' \in {"sleep", "returned"} /\ ~aborted') =>
          /\ \A d \in AbandonedUnstarted : parse_submits'[d] >= 1
          /\ mon_pc' = "returned" => AbandonedUnstarted = {}]_vars

\* ------------------------------------------------------------------ C15
\* C15: the map the ingestion driver returns has, for every item whose
\* upload succeeded during the call, an entry from the id of the uploaded
\* document to that item, whether or not its parse request failed
\* afterwards, and has no entry for any other id.
C15_MapCoversUploadedItems ==
    drv_pc = "returned" =>
        /\ \A t \in Uploaded : metadata_map[uploaded_doc[t]] = items_ids[t]
        /\ \A d \in IngestDocIds :
              metadata_map[d] # 0 => \E t \in Uploaded : uploaded_doc[t] = d

\* The driver returned after two uploads, one of them with a parse request
\* that failed, next to a document that was in the dataset before.
C15_Witness ==
    /\ drv_pc = "returned"
    /\ Cardinality(Uploaded) = 2
    /\ \E t \in Uploaded : parse_calls[t] = <<"other_error">>
    /\ Len(docs) = 3

\* ------------------------------------------------------------------ C16
\* C16: the driver hands every item task to the pool before it waits, and
\* comes back, returning or raising, only when every task it handed over is
\* finished or failed; the monitor is called after that, and no ingestion
\* task takes a step once the monitor has been called.
C16_StagesDoNotOverlap ==
    [][/\ (drv_pc = "enumerate" /\ drv_pc' = "waiting") =>
              \A t \in 1..Len(items_ids') : task_pc'[t] = "queued"
       /\ (drv_pc = "waiting" /\ drv_pc' \in {"returned", "raised"}) =>
              \A t \in Dispatched : task_pc[t] \in {"finished", "failed"}
       /\ (mon_pc = "idle" /\ mon_pc' # "idle") =>
              /\ drv_pc = "returned"
              /\ \A t \in Dispatched : task_pc[t] = "finished"
       /\ mon_pc # "idle" => task_pc' = task_pc]_vars

\* The monitor made its first listing with the uploads of MaxItems tasks in
\* the tracking list.
C16_Witness ==
    /\ mon_pc = "sleep"
    /\ Len(document_ids) = MaxItems
    /\ \A d \in DocIds : parse_submits[d] = 0

\* ------------------------------------------------------------------ C17
\* C17: when get_items answers no result, process_items_in_parallel gives
\* control back without raising, with no task dispatched and nothing
\* uploaded.
C17_EnumerationFailureReturns ==
    (driver = "items" /\ items = "none") =>
        /\ drv_pc # "raised"
        /\ Dispatched = {}
        /\ \A t \in TaskIds : uploaded_doc[t] = 0

\* ------------------------------------------------------------------ C18
\* Task t failed before its parse request: in the download or the upload.
FailedBeforeParse(t) == task_pc[t] = "failed" /\ parse_calls[t] = <<>>

\* C18: a failure while processing one item skips that item only: when the
\* driver is over, a call whose tasks failed in retrieval or upload only has
\* returned normally, every other task is finished and has its map entry.
C18_ItemFailureSkipsItemOnly ==
    ( /\ items = "list"
      /\ drv_pc \in {"returned", "raised"}
      /\ \A t \in Dispatched : task_pc[t] = "failed" => FailedBeforeParse(t) )
    => /\ drv_pc = "returned"
       /\ \A t \in Dispatched :
             ~FailedBeforeParse(t) =>
                 /\ task_pc[t] = "finished"
                 /\ uploaded_doc[t] # 0 => metadata_map[uploaded_doc[t]] = items_ids[t]

\* ------------------------------------------------------------------ C19
\* C19: retrieve_item_file never raises to its caller, and the path it
\* returns is the path of a file that is there; no details, no bitstreams,
\* no PDF, no retrieve link and a failed download all give (None, None).
C19_RetrieveNeverRaises ==
    /\ rf_pc # "raised"
    /\ rf_pc = "returned" =>
          /\ rf_result = "path" => file_exists
          /\ (item_details = "none" \/ bitstreams # "pdf") => rf_result = "none"

\* ------------------------------------------------------------------ C20
\* get_item_details has answered.
DetailsAnswered == rf_pc \notin {"idle", "details"}

\* C20 as stated: get_item_details gives None whenever the item request or
\* the metadata request fails.
C20_EitherFailureNoResult ==
    (DetailsAnswered /\ (item_response # "ok" \/ metadata_response # "ok"))
        => item_details = "none"

\* C20 amended: get_item_details gives None exactly when the item request
\* fails; when only the metadata request fails it gives the item's details
\* with empty metadata.
C20_ItemFailureNoResult ==
    DetailsAnswered =>
        /\ item_details = "none" <=> item_response # "ok"
        /\ (item_response = "ok" /\ metadata_response # "ok") => item_details = "no_metadata"
        /\ (item_response = "ok" /\ metadata_response = "ok") => item_details = "full"

\* The metadata request raised, and the file of the item was still
\* retrieved with the details.
C20_Witness ==
    /\ rf_pc = "returned"
    /\ item_response = "ok"
    /\ metadata_response = "exception"
    /\ item_details = "no_metadata"
    /\ rf_result = "path"

\* ------------------------------------------------------------------ C21
\* C21: when the file of the selected attachment is already at its path,
\* retrieve_item_file issues no download request, leaves the file as it is
\* and returns that path with the item details.
C21_ExistingFileNotDownloaded ==
    [][(rf_pc = "exists" /\ file_exists) =>
          /\ rf_pc' = "returned"
          /\ rf_result' = "path"
          /\ item_details' \in {"full", "no_metadata"}
          /\ file_exists'
          /\ download_requests' = 0]_vars

\* The call returned the path of a file that was there, without a request,
\* although the download would have failed.
C21_Witness ==
    /\ rf_pc = "returned"
    /\ rf_result = "path"
    /\ file_exists
    /\ download_requests = 0
    /\ download_response = "connect_error"

\* ------------------------------------------------------------------ C22
\* The positions of the PDFs of the list, and of those in the ORIGINAL
\* bundle.
PdfAt == {i \in 1..Len(bitstream_list) : bitstream_list[i].name \in {"pdf", "PDF"}}

OriginalPdfAt == {i \in PdfAt : bitstream_list[i].bundleName = "ORIGINAL"}

\* C22: get_primary_pdf_bitstream returns None exactly when no name ends in
\* the PDF extension; otherwise the largest PDF of the ORIGINAL bundle when
\* there is one, else the largest PDF, the first-seen among equals.
C22_SelectionPolicy ==
    sel_pc = "done" =>
        LET preferred == IF OriginalPdfAt # {} THEN OriginalPdfAt ELSE PdfAt
            r == primary_bitstream
        IN /\ r = 0 <=> PdfAt = {}
           /\ r # 0 =>
                 /\ r \in preferred
                 /\ \A j \in preferred :
                       \/ bitstream_list[j].sizeBytes < bitstream_list[r].sizeBytes
                       \/ bitstream_list[j].sizeBytes = bitstream_list[r].sizeBytes /\ j >= r

\* A larger PDF of another bundle comes first, and the second of two equal
\* ORIGINAL PDFs is not the one returned.
C22_Witness ==
    /\ sel_pc = "done"
    /\ Len(bitstream_list) = 3
    /\ bitstream_list[1] = [name |-> "pdf", bundleName |-> "OTHER", sizeBytes |-> 2]
    /\ bitstream_list[2] = [name |-> "PDF", bundleName |-> "ORIGINAL", sizeBytes |-> 1]
    /\ bitstream_list[3] = [name |-> "pdf", bundleName |-> "ORIGINAL", sizeBytes |-> 1]
    /\ primary_bitstream = 2

\* ------------------------------------------------------------------ C23
\* A step of get_items that takes in a page.
PageStep == gi_pc = "request" /\ last_answer' = "page"

\* The uuids of page that are not in seen, each at its first place.
NewInOrder(page, seen) ==
    LET First(i) == /\ page[i] # 0
                    /\ page[i] \notin seen
                    /\ \A j \in 1..(i - 1) : page[j] # page[i]
        ps == Positions(page, {i \in 1..Len(page) : First(i)}, 1)
    IN [k \in 1..Len(ps) |-> page[ps[k]]]

Take(seq, n) == SubSeq(seq, 1, Min(n, Len(seq)))

\* C23: the list get_items builds never holds a uuid twice, whatever pages
\* the repository answers, and grows only by the new uuids of a page in the
\* order of their first appearance (as many as the cap leaves room for).
C23_ItemsDeduplicatedInOrder ==
    [][/\ \A i, j \in 1..Len(gi_items') : i # j => gi_items'[i] # gi_items'[j]
       /\ IF PageStep
          THEN LET new == NewInOrder(items_retrieved', Range(gi_items))
                   room == IF limit_items = NoLimit THEN Len(new)
                           ELSE limit_items - Len(gi_items)
               IN gi_items' = gi_items \o Take(new, room)
          ELSE gi_items' = gi_items]_vars

\* The second page overlapped the first, and a third listing is due.
C23_Witness ==
    /\ gi_pc = "loop"
    /\ gi_items = <<2, 1>>
    /\ items_retrieved = <<2, 2, 1>>
    /\ Len(page_limits) = 2
    /\ offset = 4

\* ------------------------------------------------------------------ C24
\* C24: with a cap, get_items never holds more items than the cap, whatever
\* the repository answers, and every page request asks for the smaller of
\* the page size and what is missing to the cap (the page size without cap).
C24_CapNeverExceeded ==
    /\ limit_items # NoLimit => Len(gi_items) <= limit_items
    /\ gi_pc = "request" =>
          /\ page_limits # <<>>
          /\ page_limits[Len(page_limits)] =
                IF limit_items = NoLimit THEN limit_items_page
                ELSE Min(limit_items_page, limit_items - Len(gi_items))
          /\ page_limits[Len(page_limits)] >= 1

\* The repository answered more new records than were asked for, and the
\* list stopped at the cap.
C24_Witness ==
    /\ gi_pc = "returned"
    /\ limit_items = 1
    /\ page_limits = <<1>>
    /\ items_retrieved = <<1, 2>>
    /\ gi_items = <<1>>

\* ------------------------------------------------------------------ C25
SmallCap == limit_items # NoLimit /\ limit_items < limit_items_page

\* C25 as stated: with a cap smaller than the page size the first request
\* asks for exactly limit_items records and no second request is made.
C25_SmallCapSingleRequest ==
    SmallCap =>
        /\ page_limits # <<>> => page_limits[1] = limit_items
        /\ Len(page_limits) <= 1

\* C25, amended: with a cap smaller than the page size the first request
\* asks for exactly limit_items records; a further request is made only while
\* every page received so far brought a new item and the cap is not reached,
\* and it asks for exactly the number of items still missing to the cap.
C25_SmallCapRequestsMissing ==
    SmallCap =>
        /\ page_limits # <<>> => page_limits[1] = limit_items
        /\ gi_pc = "request" =>
              /\ Len(gi_items) < limit_items
              /\ Len(gi_items) >= Len(page_limits) - 1
              /\ page_limits[Len(page_limits)] = limit_items - Len(gi_items)

\* The first page brought one item of a cap of two, and a second request
\* asks for the missing one.
C25_Witness ==
    /\ limit_items = 2
    /\ limit_items_page = 3
    /\ gi_pc = "request"
    /\ page_limits = <<2, 1>>
    /\ Len(gi_items) = 1

\* ------------------------------------------------------------------ C26
\* C26 as stated: no page request follows a page with fewer records than
\* were requested.
C26_ShortPageEndsEnumeration == short_page => gi_pc # "request"

\* C26, amended: get_items makes no further page request after an empty page
\* or a page that brings no new item, stops otherwise only when the cap is
\* reached or a request fails, and asks for another page after every page
\* that brought a new item, short or not, while the cap is not reached.
C26_EmptyOrStalePageEndsEnumeration ==
    [][/\ PageStep =>
            /\ gi_pc' = "returned" <=> (items_retrieved' = <<>> \/ gi_items' = gi_items)
            /\ gi_pc' = "returned" => gi_result' = "items"
            /\ gi_pc' # "returned" => gi_pc' = "loop"
       /\ (gi_pc = "request" /\ last_answer' # "page" /\ gi_pc' # "request") =>
            gi_pc' = "returned" /\ gi_result' = "none"
       /\ gi_pc = "loop" =>
            /\ gi_pc' = "returned" <=> (limit_items # NoLimit /\ Len(gi_items) >= limit_items)
            /\ gi_pc' # "returned" => gi_pc' = "request"
       /\ gi_pc = "returned" => gi_pc' = "returned"]_vars

\* A page shorter than asked for brought a new item, and the next page is
\* being requested.
C26_Witness ==
    /\ gi_pc = "request"
    /\ short_page
    /\ limit_items = NoLimit
    /\ Len(items_retrieved) < limit_items_page
    /\ Len(page_limits) = 2
    /\ gi_items # <<>>

\* ------------------------------------------------------------------ C27
\* C27: a page fetch is attempted at most max_retries times; the wait after
\* the failure of attempt k (from 0) is 2^k seconds, with no wait after the
\* last one; when every attempt fails get_items returns None.
C27_BoundedRetriesWithBackoff ==
    /\ attempt <= max_retries
    /\ gi_pc = "request" => attempt < max_retries
    /\ \A k \in 1..Len(sleeps) : sleeps[k] = 2 ^ (k - 1)
    /\ Len(sleeps) = IF attempt = max_retries /\ last_answer = "exception"
                     THEN attempt - 1 ELSE attempt
    /\ (attempt = max_retries /\ last_answer = "exception") =>
          gi_pc = "returned" /\ gi_result = "none"

\* The second page failed four times out of four, with waits of 1, 2 and 4
\* seconds, after a first page had brought items.
C27_Witness ==
    /\ max_retries = 4
    /\ attempt = 4
    /\ sleeps = <<1, 2, 4>>
    /\ last_answer = "exception"
    /\ Len(page_limits) = 2
    /\ gi_items # <<>>
    /\ gi_pc = "returned"
    /\ gi_result = "none"

\* ------------------------------------------------------------------ C28
\* C28: a page request answered with a non-success status makes get_items
\* return None at once, without another attempt, wait or page request.
C28_RefusedRequestReturnsNone ==
    [][/\ (gi_pc = "request" /\ last_answer' = "status_error") =>
            /\ gi_pc' = "returned"
            /\ gi_result' = "none"
            /\ attempt' = attempt
            /\ sleeps' = sleeps
            /\ page_limits' = page_limits
       /\ last_answer = "status_error" =>
            /\ gi_pc = "returned"
            /\ UNCHANGED <<gi_pc, gi_result, attempt, sleeps, page_limits>>]_vars

\* The second page was refused after one transport failure, with budget
\* left for more attempts.
C28_Witness ==
    /\ last_answer = "status_error"
    /\ gi_pc = "returned"
    /\ gi_result = "none"
    /\ Len(page_limits) = 2
    /\ attempt = 1
    /\ max_retries >= 3
    /\ gi_items # <<>>

\* ------------------------------------------------------------------ C29
\* What retrieve_item_file answered to the task is a path with item details.
RetrievalSucceeded(t) == retrieved[t] \in {"pdf", "PDF", "missing"}

\* C29: every item whose retrieval answered a path and item details is
\* uploaded, has its document id in the tracking list and has been
\* submitted for parsing; stated for the tasks that ended without an
\* exception, which leaves the failures of the download and of the upload
\* aside.
C29_RetrievedItemsIngested ==
    \A t \in TaskIds :
        (RetrievalSucceeded(t) /\ task_pc[t] = "finished") =>
            /\ uploaded_doc[t] # 0
            /\ documents_id[t] \in Range(document_ids)
            /\ parse_calls[t] # <<>>

\* ------------------------------------------------------------------ C30
\* C30: no outbound call of the retrieval of an item waits without bound:
\* when a remote service stops answering, the call is ended by its timeout
\* and retrieve_item_file returns or raises.
C30_NoCallBlocksForever == rf_pc # "blocked"

\* ------------------------------------------------------------------ C31
\* The answer ends the paging: the fetch raised, or the page is empty or
\* shorter than page_size.
LastPage(a) == a.raises \/ Len(a.documents) < page_size

\* The documents of the answers 1..n, in order; a raising fetch has none.
RECURSIVE Concatenation(_, _)
Concatenation(answers, n) ==
    IF n = 0 THEN <<>>
    ELSE Concatenation(answers, n - 1) \o
         (IF answers[n].raises THEN <<>> ELSE answers[n].documents)

\* C31: get_all_documents asks for the pages 1, 2, .. in turn up to the
\* first page k that is empty, shorter than page_size or whose fetch
\* raises, asks for no page after k, and returns the concatenation of the
\* pages 1..k in order.
C31_PagesConcatenatedUpToLast ==
    /\ \A i \in 1..Len(fetched) : fetched[i].page = i
    /\ \A i \in 1..(Len(fetched) - 1) : ~LastPage(fetched[i])
    /\ all_documents = Concatenation(fetched, Len(fetched))
    /\ (gad_pc = "returned" /\ dataset # "none") =>
          fetched # <<>> /\ LastPage(fetched[Len(fetched)])
    /\ (gad_pc = "fetch" /\ fetched # <<>>) => ~LastPage(fetched[Len(fetched)])
    /\ dataset = "none" => fetched = <<>> /\ all_documents = <<>>

\* Two full pages and a last page with one document were concatenated.
C31_Witness ==
    /\ gad_pc = "returned"
    /\ page_size = 2
    /\ Len(fetched) = 3
    /\ all_documents = <<1, 2, 2, 1, 2>>

\* ------------------------------------------------------------------ C32
\* A tracked document is RUNNING in the dataset.
TrackedRunning ==
    \E i \in 1..Len(docs) : docs[i].run = "RUNNING" /\ docs[i].id \in TrackedIds

\* C32: a pass that runs to its end while a tracked document is RUNNING
\* does not end monitoring but suspends; a pass never leads straight to the
\* next listing, and a suspension is entered from a pass only and left for
\* the next pass only, so one suspension lies between two listings.
C32_RunningKeepsPollingWithSleep ==
    [][/\ (mon_pc = "poll" /\ mon_pc' \in {"sleep", "returned"} /\ ~aborted'
           /\ TrackedRunning) => mon_pc' = "sleep"
       /\ (mon_pc = "poll" /\ mon_pc' = "poll") => UNCHANGED <<document_ids, monVars>>
       /\ (mon_pc' = "sleep" /\ mon_pc # "sleep") => mon_pc = "poll"
       /\ mon_pc = "sleep" =>
            /\ mon_pc' \in {"sleep", "poll"}
            /\ UNCHANGED <<document_ids, progress_bars, parse_submits, done_reports,
                           notified, cb_calls>>]_vars

\* The monitor sleeps after passes that adopted nothing: a tracked document
\* was RUNNING, and still is.
C32_Witness ==
    /\ mon_pc = "sleep"
    /\ TrackedRunning
    /\ \A d \in DocIds : parse_submits[d] = 0
    /\ ~list_failed /\ ~cb_raised

\* ------------------------------------------------------------------ C33
\* The untracked documents of the dataset that are not UNSTART.
StartedOrphans ==
    {docs[i].id : i \in {j \in 1..Len(docs) :
        docs[j].run # "UNSTART" /\ docs[j].id \notin TrackedIds}}

\* C33: a pass neither submits for parsing nor adds to the tracking list an
\* untracked document that is RUNNING, DONE or failed, and a pass that runs
\* to its end with no tracked document RUNNING and no untracked UNSTART
\* document leaves the loop, whatever else is untracked.
C33_OnlyUnstartedReadopted ==
    [][mon_pc = "poll" =>
          /\ \A d \in StartedOrphans :
                /\ parse_submits'[d] = parse_submits[d]
                /\ d \notin Range(document_ids')
          /\ (mon_pc' \in {"sleep", "returned"} /\ ~aborted'
              /\ ~TrackedRunning /\ Orphans = {}) => mon_pc' = "returned"]_vars

\* The monitor returned while an untracked document was RUNNING, left alone.
C33_Witness ==
    /\ ReturnedNormally
    /\ ~list_failed /\ ~cb_raised
    /\ \E i \in 1..Len(docs) :
          /\ docs[i].run = "RUNNING"
          /\ docs[i].id \notin TrackedIds
          /\ parse_submits[docs[i].id] = 0

\* ------------------------------------------------------------------ C35
\* C35: within one monitor_parsing call no document id is submitted for
\* parsing more than once, and every id that was submitted is tracked.
C35_ResubmittedAtMostOnce ==
    \A d \in DocIds :
        /\ parse_submits[d] <= 1
        /\ parse_submits[d] = 1 => d \in TrackedIds

\* Two documents were adopted by different passes (the older one first),
\* and the one adopted first is still UNSTART: the later pass listed it
\* unstarted and did not submit it again.
C35_Witness ==
    /\ document_ids = <<1, 2>>
    /\ parse_submits[1] = 1
    /\ parse_submits[2] = 1
    /\ \E i \in 1..Len(docs) : docs[i].id = 1 /\ docs[i].run = "UNSTART"

\* ------------------------------------------------------------------ C34
\* C34: whenever a pass is about to list a document whose id is tracked, a
\* progress entry for that id exists, and monitor_parsing never fails, also
\* when the document was not in the start-up listing.
C34_ListedTrackedHasProgressEntry ==
    /\ mon_pc = "poll" =>
          \A i \in 1..Len(docs) :
              docs[i].id \in TrackedIds => docs[i].id \in progress_bars
    /\ mon_pc # "raised"

\* ------------------------------------------------------------------ C36
\* C36: with finitely many documents, listing calls that succeed and
\* RUNNING documents that all leave RUNNING in the end, monitor_parsing
\* eventually returns.
C36_MonitorEventuallyReturns == <>(mon_pc = "returned" \/ list_failed)

\* ------------------------------------------------------------------ C37
\* The tasks inside `with semaphore:`.
HoldingPermit ==
    {t \in TaskIds : task_pc[t] \in InProcessItem \cup
                        {"lock_meta", "meta", "release", "release_exc"}}

\* The positions at which a task waits for the semaphore or for the lock.
Waiting == {"queued", "lock_upload", "lock_log", "lock_meta"}

\* Every permit and the lock are accounted for: a task holds the lock only
\* inside a `with lock:` block, never while waiting and never after
\* process_item ended, by return or by exception.
LocksReleased ==
    /\ semaphore = max_concurrent_tasks - Cardinality(HoldingPermit)
    /\ semaphore >= 0
    /\ lock # 0 => task_pc[lock] \in {"upload", "list", "append", "log", "meta"}
    /\ \A t \in TaskIds : task_pc[t] \in Waiting => lock # t

\* C37: the semaphore and the lock are released on every exit path of a
\* task, no task waits while it holds the lock, and every dispatched task
\* enters and leaves process_item: the driver, which goes on only when all
\* its tasks are over, does go on in the end.
C37_IngestionDeadlockFree ==
    /\ []LocksReleased
    /\ [](drv_pc \in {"returned", "raised"} =>
            \A t \in Dispatched : task_pc[t] \in {"finished", "failed"})
    /\ <>(drv_pc \in {"returned", "raised"})

\* With one permit, the first task's upload raised, and the second task
\* still got the permit and the lock and ran to its end.
C37_Witness ==
    /\ max_concurrent_tasks = 1
    /\ Len(items_ids) = 2
    /\ task_pc[1] = "failed" /\ retrieved[1] = "pdf" /\ uploaded_doc[1] = 0
    /\ task_pc[2] = "finished" /\ uploaded_doc[2] # 0
    /\ metadata_map[uploaded_doc[2]] = items_ids[2]
    /\ drv_pc = "raised"
    /\ semaphore = 1 /\ lock = 0

\* ------------------------------------------------------------------ C38
\* C38: every page after which get_items goes on adds a uuid not seen
\* before, so the page requests number at most the distinct uuids seen plus
\* one, and get_items returns in the end when its requests are answered.
C38_GetItemsTerminates ==
    /\ [][/\ (PageStep /\ gi_pc' # "returned") =>
               Cardinality(seen_uuids') > Cardinality(seen_uuids)
          /\ Len(page_limits') <= Cardinality(seen_uuids') + 1
          /\ Cardinality(seen_uuids') <= MaxUuid]_vars
    /\ <>(gi_pc = "returned")

\* Without cap, every uuid of the repository was collected over two pages
\* and a third page ended the enumeration.
C38_Witness ==
    /\ gi_pc = "returned"
    /\ gi_result = "items"
    /\ limit_items = NoLimit
    /\ Cardinality(seen_uuids) = MaxUuid
    /\ Len(page_limits) = MaxUuid + 1
    /\ last_answer = "page"


\* ---------------------------------------------------------------- C40
\* C40: within one driver call each distinct item id is handed to at most
\* one task, and so no item is uploaded by two tasks; stated for both
\* drivers.
C40_EachItemDispatchedOnce ==
    \A t1, t2 \in Dispatched :
        t1 # t2 =>
            /\ items_ids[t1] # items_ids[t2]
            /\ ~(uploaded_doc[t1] # 0 /\ uploaded_doc[t2] # 0
                  /\ items_ids[t1] = items_ids[t2])

\* The same statement for process_items_in_parallel alone.
C40_ItemsDriverDispatchesOnce ==
    driver = "items" => C40_EachItemDispatchedOnce


\* ---------------------------------------------------------------- C39
\* The other tasks that hold the file of task t open for writing.
OtherWriters(t) == writers[FilePath(t)] \ {t}

\* C39: under every interleaving of ingestion tasks no local file is
\* written by two tasks at the same time, and no task uploads a file that
\* another task is still downloading: the blob a task uploads was never
\* read from a file that was still being written, and nobody writes the
\* file while the task uploads it.
C39_FilesNotShared ==
    /\ \A f \in TaskIds : Cardinality(writers[f]) <= 1
    /\ \A t \in Dispatched :
          /\ blob[t] # "partial"
          /\ task_pc[t] = "upload" => OtherWriters(t) = {}

\* The first half alone, and the second half alone.
C39_OneWriterPerFile == \A f \in TaskIds : Cardinality(writers[f]) <= 1

C39_NoPartialUpload == \A t \in Dispatched : uploaded_doc[t] # 0 => blob[t] = "complete"

\* The statement where every dispatched task has a file name of its own.
C39_FilesNotSharedWhenNamesUnique ==
    (\A t1, t2 \in Dispatched : t1 # t2 => FilePath(t1) # FilePath(t2))
        => C39_FilesNotShared

\* The statement where every item names its PDF differently.
C39_FilesNotSharedItemUniqueNames ==
    (\A i, j \in TaskIds : i # j => pdf_name[i] # pdf_name[j]) => C39_FilesNotShared

\* The statement for the items driver, whose item ids are distinct.
C39_FilesNotSharedItemsDriver == driver = "items" => C39_FilesNotShared

====
